---- MODULE Spec2Model ----
(***************************************************************************)
(* OpenAuthSter issuer: tenant-scoped credential gate, identity upsert     *)
(* with invite gating, admin user endpoints and the session merge engine.  *)
(*                                                                         *)
(* Every handler is one action: a Worker request runs its awaits against   *)
(* D1 one statement at a time, and the properties are about single         *)
(* requests run to completion.  Spec is the authentication flow of the     *)
(* Hono endpoints, SpecRM that of the RequestManager dispatcher, SpecAdmin *)
(* the tenant secret and the admin endpoints, SpecSession the session      *)
(* endpoints, SpecMerge the session operations called on their own,        *)
(* SpecPut and SpecList the PUT and the paged list of the admin endpoints,  *)
(* SpecParams the two request context resolvers, SpecDispatch the two      *)
(* dispatchers from request to response, SpecToken the token check with a  *)
(* verifier that may raise, SpecCors the endpoints behind the middleware.  *)
(*                                                                         *)
(* Where the interleaving of two requests matters a function is split at   *)
(* its awaits: SpecRace and SpecRacePrivate are two callers of the session *)
(* updates and reads, SpecCache two callers of getProjectById next to the  *)
(* management plane.  SpecUpgrade and SpecInit are the runs of the bin/    *)
(* commands, one action per exec; SpecProviders is the provider factory    *)
(* and SpecParsers the identity extraction of the sub-based providers.     *)
(*                                                                         *)
(* SpecExtract is the login of a provider whose user-info call may fail,   *)
(* SpecIdPath the idPath walk of the generic OAuth2 parser, SpecSendCode   *)
(* the delivery of a verification code, SpecInviteRace two registrations   *)
(* presenting one invite link, SpecIsolation the session endpoints called  *)
(* with the token of another tenant, SpecHandlers the handler chain of the *)
(* RequestManager, SpecParserConfig the configuration the success callback *)
(* hands to the parser, SpecFrame the two session documents of a user and  *)
(* SpecStorage the key-value adapter with its expiry cleanup.              *)
(***************************************************************************)
EXTENDS Integers, Sequences, FiniteSets, TLC

\* ------------------------------------------------------------------------
\* Bounds of the model
\* ------------------------------------------------------------------------
MaxIds == 2   \* user ids that crypto.randomUUID() hands out in one run
MaxNow == 1   \* the clock runs over 0..MaxNow
MaxRows == 3  \* users a tenant has when its user list is paged
MaxProviders == 2  \* provider configurations of a tenant

\* ------------------------------------------------------------------------
\* Values
\* ------------------------------------------------------------------------
\* JavaScript null / a present value (string | null parameters and headers)
null == [some |-> FALSE]
Some(v) == [some |-> TRUE, v |-> v]

\* JSON values that the session and profile columns carry
JNull == [t |-> "null"]
JObj(o) == [t |-> "obj", o |-> o]
EmptyObj == [k \in {} |-> 0]

\* A TEXT column is SQL NULL or the text JSON.stringify wrote; a JSON text is
\* represented by the JSON value it denotes.
SQLNULL == [sqlnull |-> TRUE]
stringify(v) == [text |-> v]
parse(c) == c.text
\* JSON.parse(x!) where x may be SQL NULL: null is coerced to the text "null"
parseCoerced(c) == IF c = SQLNULL THEN JNull ELSE parse(c)
\* el.col ? JSON.parse(el.col) : null
parseOrNull(c) == IF c = SQLNULL THEN JNull ELSE parse(c)

\* D1Storage: before the first call of the adapter the table may not exist;
\* the keys OpenAuth stores under are arrays of strings
NoTable == [exists |-> FALSE]
StorageKeys == {<<"signing">>, <<"oauth", "refresh">>}
NoWrite == [op |-> "none", value |-> JNull, expiry |-> null]

\* { ...x }: the own enumerable keys of an object, nothing for null
spread(v) == IF v.t = "obj" THEN v.o ELSE EmptyObj
\* { ...a, ...b } on the key maps a and b: the keys of b win.  The variant
\* before it is a merge in which the keys of a win.
spreadMerge_FirstWins(a, b) ==
  [k \in (DOMAIN a) \cup (DOMAIN b) |-> IF k \in DOMAIN a THEN a[k] ELSE b[k]]

spreadMerge(a, b) ==
  [k \in (DOMAIN a) \cup (DOMAIN b) |-> IF k \in DOMAIN b THEN b[k] ELSE a[k]]

\* Secrets are character strings; " " is the only whitespace of the alphabet
S1 == <<"s", "1">>
S2 == <<"s", "2">>
Bad == <<"x">>
Spaced == <<"s", " ", "1">>

RECURSIVE trimStart(_)
trimStart(s) == IF s # <<>> /\ Head(s) = " " THEN trimStart(Tail(s)) ELSE s
RECURSIVE trimEnd(_)
trimEnd(s) ==
  IF s # <<>> /\ s[Len(s)] = " " THEN trimEnd(SubSeq(s, 1, Len(s) - 1)) ELSE s
trim(s) == trimEnd(trimStart(s))

\* ------------------------------------------------------------------------
\* Tenants, identifiers, invite links
\* ------------------------------------------------------------------------
PUBLIC_CLIENT_ID == "openauth_webui"
Tenants == {"acme", "beta"}            \* rows of the project table
ClientIDs == Tenants \cup {"ghost"}    \* "ghost" has no project row
Identifiers == {"i1", "i2"}
InviteIDs == {"inv1", "inv2"}
UserIDs == 1..MaxIds

VARIABLES
  projectTable,   \* clientID -> project row (openauth_webui_projects)
  users,          \* clientID -> sequence of user rows, in insertion order
  inviteLinks,    \* set of invite-link rows (openauth_webui_invite_links)
  tokens,         \* subjects the issuer has signed an access token for
  now,            \* Date.now()
  nextId,         \* next fresh user id
  resp,           \* the last request with its outcome
  cli,            \* the run of a bin/ command: position, commands, exits
  inflight,       \* caller -> the call that is between two awaits
  currentProjectCache,  \* clientID -> Project, the Map of the isolate
  everStored,     \* history: the project rows storage has held
  storageTable,   \* the key-value table of D1Storage (openauth_storage)
  written         \* history: key -> the last set or remove of that key

vars ==
  <<projectTable, users, inviteLinks, tokens, now, nextId, resp, cli,
    inflight, currentProjectCache, everStored, storageTable, written>>

\* What a request to the Worker leaves alone
rest ==
  <<cli, inflight, currentProjectCache, everStored, storageTable, written>>

\* No bin/ command is running
Idle == [flow |-> "none"]

\* Two requests can be in the isolate at a time
Callers == {1, 2}
NoCall == [kind |-> "none"]

\* A user row has the columns id, identifier, data, session_public and
\* session_private; created_at is written once and never read, and is left out.

\* ------------------------------------------------------------------------
\* Requests and responses
\* ------------------------------------------------------------------------
NoValue == [provider |-> "none", email |-> "", id |-> EmptyObj]
PasswordValues == {[provider |-> "password", email |-> "i1", id |-> EmptyObj]}
OidcClaims == {[sub |-> "i1", plan |-> "p"], [sub |-> "i2", name |-> "x"]}
OidcValues == {[provider |-> "oidc", email |-> "", id |-> c] : c \in OidcClaims}
Values == PasswordValues \cup OidcValues

NoBody == [public |-> JNull, private |-> JNull, user_id |-> 0]

\* One record shape for every request: the inputs the handler saw and what it
\* answered.  Fields a handler does not use keep the value they have here.
Resp0 ==
  [op |-> "none", clientID |-> null, userID |-> 0, secret |-> null,
   auth |-> null, inviteID |-> null, value |-> NoValue, patch |-> JNull,
   skipMerge |-> FALSE, status |-> 0, error |-> "", success |-> FALSE,
   body |-> NoBody, lookup |-> FALSE, rowRead |-> FALSE, rowWritten |-> FALSE,
   warning |-> FALSE, cookieCleared |-> FALSE, inserted |-> FALSE,
   list |-> <<>>, req |-> EmptyObj, out |-> EmptyObj]

\* ------------------------------------------------------------------------
\* Tenant directory
\* ------------------------------------------------------------------------
WEBUI_ORIGIN_URL == "https://webui.example"

PublicProject ==
  [clientID |-> PUBLIC_CLIENT_ID, secret |-> <<>>, registerOnInvite |-> FALSE,
   originURL |-> WEBUI_ORIGIN_URL,
   providers_data |-> <<[type |-> "password", enabled |-> TRUE]>>]

\* The process cache holds what an earlier lookup read; the specifications
\* that resolve with this operator do not edit the project table, so a
\* cached row equals the stored row.  SpecCache resolves with the cache.
getProjectById(clientId) ==
  IF clientId = PUBLIC_CLIENT_ID THEN Some(PublicProject)
  ELSE IF clientId \in DOMAIN projectTable THEN Some(projectTable[clientId])
  ELSE null

\* ------------------------------------------------------------------------
\* Invite links
\* ------------------------------------------------------------------------
\* DELETE FROM invite_links WHERE id = ?  (a null id matches no row).  The
\* variant before it is a removal that reports success and deletes nothing.
removeInviteLinkById_KeepsRow(links, id) == links

removeInviteLinkById(links, id) ==
  {l \in links : ~(id.some /\ l.id = id.v)}

\* a validation that forgets the expiry comparison
ensureInviteLinkIsValid_IgnoresExpiry(links, id, t) ==
  IF {l \in links : l.id = id} = {}
  THEN [ok |-> FALSE, error |-> "Invite link not found", links |-> links]
  ELSE [ok |-> TRUE, error |-> "", links |-> links]

ensureInviteLinkIsValid(links, id, t) ==
  LET found == {l \in links : l.id = id}
  IN IF found = {}
     THEN [ok |-> FALSE, error |-> "Invite link not found", links |-> links]
     ELSE LET inviteLink == CHOOSE l \in found : TRUE
          IN IF inviteLink.expiresAt < t
             THEN [ok |-> FALSE, error |-> "Invite link has expired",
                   links |-> removeInviteLinkById(links, Some(id))]
             ELSE [ok |-> TRUE, error |-> "", links |-> links]

\* ------------------------------------------------------------------------
\* Identity extraction
\* ------------------------------------------------------------------------
passwordParser(data) ==
  [ok |-> TRUE, identifier |-> data.email, data |-> [email |-> data.email]]

oidcParser(data) ==
  IF "sub" \notin DOMAIN data.id
  THEN [ok |-> FALSE, identifier |-> "", data |-> EmptyObj]
  ELSE [ok |-> TRUE, identifier |-> data.id.sub, data |-> data.id]

\* The vendor's who-am-I endpoint: the answer to a bearer token.  A live
\* token is answered 200 with the user's claims, a revoked one 401 with an
\* error document.
UserInfoEndpoint ==
  [live1 |-> [ok |-> TRUE, json |-> [sub |-> "i1", name |-> "x"]],
   live2 |-> [ok |-> TRUE, json |-> [email |-> "i2"]],
   revoked |-> [ok |-> FALSE, json |-> [error |-> "invalid_auth"]]]
AccessTokens == DOMAIN UserInfoEndpoint

\* fetch(url, {Authorization: Bearer token}), then throw unless res.ok, then
\* res.json().  The variant before it hands the body on whatever the status.
OAuth2Fetcher_IgnoresStatus(token) ==
  [ok |-> TRUE, info |-> UserInfoEndpoint[token].json]
OAuth2Fetcher(token) ==
  LET res == UserInfoEndpoint[token]
  IN  IF ~res.ok THEN [ok |-> FALSE, info |-> EmptyObj]
      ELSE [ok |-> TRUE, info |-> res.json]

\* slackBuilder.parser: identifier: info.sub || info.email!
slackParser(data) ==
  LET fetched == OAuth2Fetcher(data.tokenset.access)
      info == fetched.info
  IN  IF ~fetched.ok THEN [ok |-> FALSE, identifier |-> "", data |-> EmptyObj]
      ELSE [ok |-> TRUE,
            identifier |-> IF "sub" \in DOMAIN info THEN info.sub
                           ELSE IF "email" \in DOMAIN info THEN info.email
                           ELSE "undefined",
            data |-> info]

providerConfigMap(value) ==
  CASE value.provider = "password" -> passwordParser(value)
    [] value.provider = "slack" -> slackParser(value)
    [] OTHER -> oidcParser(value)

\* ------------------------------------------------------------------------
\* Identity resolution and upsert
\* ------------------------------------------------------------------------
userExists(rows, identifier) ==
  \E i \in 1..Len(rows) : rows[i].identifier = identifier

\* INSERT ... ON CONFLICT (identifier) DO UPDATE SET data = ... RETURNING id.
\* The variant before it is an upsert whose conflict branch merges the new
\* profile into the stored one.
upsertUser_MergesProfile(rows, newId, identifier, dataToStore) ==
  IF userExists(rows, identifier)
  THEN LET i == CHOOSE j \in 1..Len(rows) : rows[j].identifier = identifier
       IN [rows |-> [rows EXCEPT ![i].data =
                       stringify(JObj(spreadMerge(spread(parse(rows[i].data)),
                                                  dataToStore)))],
           id |-> rows[i].id, inserted |-> FALSE]
  ELSE [rows |-> Append(rows,
                   [id |-> newId, identifier |-> identifier,
                    data |-> stringify(JObj(dataToStore)),
                    session_public |-> SQLNULL, session_private |-> SQLNULL]),
        id |-> newId, inserted |-> TRUE]

upsertUser(rows, newId, identifier, dataToStore) ==
  IF userExists(rows, identifier)
  THEN LET i == CHOOSE j \in 1..Len(rows) : rows[j].identifier = identifier
       IN [rows |-> [rows EXCEPT ![i].data = stringify(JObj(dataToStore))],
           id |-> rows[i].id, inserted |-> FALSE]
  ELSE [rows |-> Append(rows,
                   [id |-> newId, identifier |-> identifier,
                    data |-> stringify(JObj(dataToStore)),
                    session_public |-> SQLNULL, session_private |-> SQLNULL]),
        id |-> newId, inserted |-> TRUE]

UserResult(ok, status, error, rows, links, id, inserted, warning, cleared) ==
  [ok |-> ok, status |-> status, error |-> error, rows |-> rows,
   links |-> links, id |-> id, inserted |-> inserted, warning |-> warning,
   cookieCleared |-> cleared]

\* The tail both variants of getOrCreateUser share: upsert, then remove the
\* invite link; a failed removal is logged as a warning and swallowed.
upsertAndConsume_RemovalFatal(rows, links, inviteID, value, userData, t, newId, removeFails) ==
  LET dataToStore == ("provider" :> value.provider) @@ userData.data
      result == upsertUser(rows, newId, userData.identifier, dataToStore)
  IN UserResult(~removeFails, IF removeFails THEN 500 ELSE 200, "",
                result.rows,
                IF removeFails THEN links
                ELSE removeInviteLinkById(links, inviteID),
                result.id, result.inserted, removeFails, ~removeFails)
upsertAndConsume(rows, links, inviteID, value, userData, t, newId, removeFails) ==
  LET dataToStore == ("provider" :> value.provider) @@ userData.data
      result == upsertUser(rows, newId, userData.identifier, dataToStore)
  IN UserResult(TRUE, 200, "", result.rows,
                IF removeFails THEN links
                ELSE removeInviteLinkById(links, inviteID),
                result.id, result.inserted, removeFails, ~removeFails)

\* getOrCreateUser of the Hono endpoints
getOrCreateUser(rows, links, project, inviteID, value, t, newId, removeFails) ==
  LET userData == providerConfigMap(value)
  IN IF ~userData.ok
     THEN UserResult(FALSE, 500, "parser", rows, links, 0, FALSE, FALSE, FALSE)
     ELSE IF project.registerOnInvite /\ ~userExists(rows, userData.identifier)
     THEN IF inviteID = null
          THEN UserResult(FALSE, 500, "Invite ID is required", rows, links,
                          0, FALSE, FALSE, FALSE)
          ELSE LET v == ensureInviteLinkIsValid(links, inviteID.v, t)
               IN IF ~v.ok
                  THEN UserResult(FALSE, 401, v.error, rows, v.links,
                                  0, FALSE, FALSE, TRUE)
                  ELSE upsertAndConsume(rows, v.links, inviteID, value,
                                        userData, t, newId, removeFails)
     ELSE upsertAndConsume(rows, links, inviteID, value, userData, t, newId,
                           removeFails)

\* getOrCreateUser of the RequestManager dispatcher
getOrCreateUserRM(rows, links, project, inviteID, value, t, newId, removeFails) ==
  LET userData == providerConfigMap(value)
  IN IF ~userData.ok
     THEN UserResult(FALSE, 500, "parser", rows, links, 0, FALSE, FALSE, FALSE)
     ELSE IF project.registerOnInvite
     THEN IF inviteID = null
          THEN UserResult(FALSE, 500, "Invite ID is required", rows, links,
                          0, FALSE, FALSE, FALSE)
          ELSE LET v == ensureInviteLinkIsValid(links, inviteID.v, t)
               IN IF ~v.ok
                  THEN UserResult(FALSE, 401, v.error, rows, v.links,
                                  0, FALSE, FALSE, TRUE)
                  ELSE upsertAndConsume(rows, v.links, inviteID, value,
                                        userData, t, newId, removeFails)
     ELSE upsertAndConsume(rows, links, inviteID, value, userData, t, newId,
                           removeFails)

\* What a login handler leaves behind once getOrCreateUser returned r
LoginOutcome(op, clientID, inviteID, value, r) ==
  /\ r.inserted => nextId <= MaxIds
  /\ users' = [users EXCEPT ![clientID] = r.rows]
  /\ inviteLinks' = r.links
  /\ nextId' = IF r.inserted THEN nextId + 1 ELSE nextId
  /\ tokens' = IF r.ok THEN tokens \cup {[id |-> r.id, clientID |-> clientID]}
               ELSE tokens
  /\ resp' = [Resp0 EXCEPT !.op = op, !.clientID = Some(clientID),
                !.inviteID = inviteID, !.value = value, !.status = r.status,
                !.error = r.error, !.success = r.ok, !.userID = r.id,
                !.rowWritten = r.ok, !.warning = r.warning,
                !.cookieCleared = r.cookieCleared, !.inserted = r.inserted]
  /\ UNCHANGED <<projectTable, now, rest>>

LoginRefused(op, clientID, inviteID, value, status, error) ==
  /\ resp' = [Resp0 EXCEPT !.op = op, !.clientID = clientID,
                !.inviteID = inviteID, !.value = value, !.status = status,
                !.error = error]
  /\ UNCHANGED <<projectTable, users, inviteLinks, tokens, now, nextId, rest>>

\* Hono endpoints: auth middleware, then the issuer whose provider flow ended
\* in success(value)
AuthSuccess(clientID, inviteID, value, removeFails) ==
  IF clientID = null
  THEN LoginRefused("auth", clientID, inviteID, value, 401, "Missing client ID")
  ELSE LET project == getProjectById(clientID.v)
       IN IF project = null
          THEN LoginRefused("auth", clientID, inviteID, value, 401,
                            "project not found")
          ELSE LoginOutcome("auth", clientID.v, inviteID, value,
                 getOrCreateUser(users[clientID.v], inviteLinks, project.v,
                                 inviteID, value, now, nextId, removeFails))

\* RequestManager dispatcher (_fetch) whose provider flow ended in
\* success(value)
FetchSuccess(clientID, inviteID, value, removeFails) ==
  IF clientID = null
  THEN LoginRefused("fetch", clientID, inviteID, value, 400, "Missing client_id")
  ELSE LET project == getProjectById(clientID.v)
       IN IF project = null
          THEN LoginRefused("fetch", clientID, inviteID, value, 400,
                            "project not found")
          ELSE LoginOutcome("fetch", clientID.v, inviteID, value,
                 getOrCreateUserRM(users[clientID.v], inviteLinks, project.v,
                                   inviteID, value, now, nextId, removeFails))

\* ------------------------------------------------------------------------
\* Errors
\* ------------------------------------------------------------------------
NoError == [kind |-> "none", status |-> 0, message |-> ""]
PartialRequestError(message, status) ==
  [kind |-> "PartialRequestError", status |-> status, message |-> message]
RequestError(message, status) ==
  [kind |-> "RequestError", status |-> status, message |-> message]
PlainError(message) == [kind |-> "Error", status |-> 0, message |-> message]

\* The catch block every endpoint ends with: a RequestError is rethrown as it
\* is, anything else is wrapped in a RequestError whose status is 500.
handlerCatch(err) ==
  IF err.kind = "RequestError" THEN err ELSE RequestError(err.message, 500)

\* The boundary above the endpoints answers a RequestError with its status.
errorResponse(err) == [status |-> err.status, error |-> err.message]

\* ------------------------------------------------------------------------
\* Credential gate: tenant secret
\* ------------------------------------------------------------------------
\* X-Client-Secret header values: absent is null
SecretHeaders == {null, Some(<<>>), Some(S1), Some(S2)}
Secrets == {null, Some(<<>>), Some(S1), Some(S2), Some(Bad), Some(Spaced)}

getSecretFromRequest(header) ==
  IF header = null \/ header.v = <<>> THEN null ELSE Some(trim(header.v))

\* a check that matches the secret against every project row
ensureSecret_AnyTenant(secret, projectID) ==
  IF secret = null \/ secret.v = <<>>
  THEN [ok |-> FALSE, lookup |-> FALSE,
        err |-> PartialRequestError("Unauthorized: Missing secret", 401)]
  ELSE IF \A c \in DOMAIN projectTable : projectTable[c].secret # secret.v
  THEN [ok |-> FALSE, lookup |-> TRUE,
        err |-> PartialRequestError("Unauthorized: Invalid secret", 401)]
  ELSE [ok |-> TRUE, lookup |-> TRUE, err |-> NoError]

ensureSecret(secret, projectID) ==
  IF secret = null \/ secret.v = <<>>
  THEN [ok |-> FALSE, lookup |-> FALSE,
        err |-> PartialRequestError("Unauthorized: Missing secret", 401)]
  ELSE LET project == {c \in DOMAIN projectTable :
                         /\ projectTable[c].clientID = projectID
                         /\ projectTable[c].secret = secret.v}
       IN IF project = {}
          THEN [ok |-> FALSE, lookup |-> TRUE,
                err |-> PartialRequestError("Unauthorized: Invalid secret", 401)]
          ELSE [ok |-> TRUE, lookup |-> TRUE, err |-> NoError]

\* ensureSecret called on its own; the caller sees the error it throws
VerifySecret(secret, projectID) ==
  LET sec == ensureSecret(secret, projectID)
  IN /\ resp' = [Resp0 EXCEPT !.op = "ensureSecret",
                   !.clientID = Some(projectID), !.secret = secret,
                   !.success = sec.ok, !.status = sec.err.status,
                   !.error = sec.err.message, !.lookup = sec.lookup]
     /\ UNCHANGED <<projectTable, users, inviteLinks, tokens, now, nextId, rest>>

\* ------------------------------------------------------------------------
\* Admin endpoints
\* ------------------------------------------------------------------------
IndexOfId(rows, userID) == {i \in 1..Len(rows) : rows[i].id = userID}

parseDBUser(row) ==
  [id |-> row.id, identifier |-> row.identifier, data |-> parseOrNull(row.data),
   session_public |-> parseOrNull(row.session_public),
   session_private |-> parseOrNull(row.session_private)]

RECURSIVE MapParse(_)
MapParse(rows) ==
  IF rows = <<>> THEN <<>> ELSE <<parseDBUser(Head(rows))>> \o MapParse(Tail(rows))

\* A request that ended in a thrown error: the error passes the handler's
\* catch block and is answered by the boundary.  userID is the row the
\* handler looked for before it threw, 0 when it threw before any row access.
answered(op, clientID, header, auth, err, lookup, userID) ==
  LET e == handlerCatch(err)
  IN [Resp0 EXCEPT !.op = op, !.clientID = Some(clientID),
        !.secret = header, !.auth = auth, !.userID = userID,
        !.rowRead = (userID # 0),
        !.status = errorResponse(e).status,
        !.error = errorResponse(e).error, !.lookup = lookup]

Answered(op, clientID, header, auth, err, lookup, userID) ==
  /\ resp' = answered(op, clientID, header, auth, err, lookup, userID)
  /\ UNCHANGED <<projectTable, users, inviteLinks, tokens, now, nextId, rest>>

\* GET /user/:clientID/:userID
getUser(clientID, userID, header) ==
  LET sec == ensureSecret(getSecretFromRequest(header), clientID)
  IN IF ~sec.ok
     THEN answered("GET /user", clientID, header, null, sec.err, sec.lookup, 0)
     ELSE LET user == IndexOfId(users[clientID], userID)
          IN [Resp0 EXCEPT !.op = "GET /user",
                !.clientID = Some(clientID), !.userID = userID,
                !.secret = header, !.lookup = TRUE, !.rowRead = TRUE,
                !.status = IF user = {} THEN 404 ELSE 200,
                !.error = IF user = {} THEN "User not found" ELSE "",
                !.success = (user # {}),
                !.list = MapParse(SelectSeq(users[clientID],
                            LAMBDA r : r.id = userID))]

AdminGetUser(clientID, userID, header) ==
  /\ resp' = getUser(clientID, userID, header)
  /\ UNCHANGED <<projectTable, users, inviteLinks, tokens, now, nextId, rest>>

\* The fields a PUT body may carry; "id" stands for any key outside the
\* allowed list.  A field that is absent is null.
NoField == [identifier |-> null, data |-> null, session_public |-> null,
            session_private |-> null, id |-> null]
PutBodies ==
  {[NoField EXCEPT !.identifier = Some("i2")],
   [NoField EXCEPT !.session_public = Some(JObj([a |-> 1])), !.id = Some(9)]}

\* the bodies above and one that replaces two documents at once
PutBodiesWide ==
  PutBodies \cup {[NoField EXCEPT !.data = Some(JObj([email |-> "z"])),
                                  !.session_private = Some(JObj([b |-> 2]))]}

\* The variant before it lets the body set the row's id as well.
allowedFields_WithId ==
  {"identifier", "data", "session_public", "session_private", "id"}

allowedFields == {"identifier", "data", "session_public", "session_private"}

\* Object.entries(newData).filter(([key]) => allowedFields.includes(key))
filtered(newData, key) == key \in allowedFields /\ newData[key].some

\* UPDATE ... SET serializeDBUser(filteredData) applied to a stored row
setFields(row, newData) ==
  [id |-> IF filtered(newData, "id") THEN newData.id.v ELSE row.id,
   identifier |-> IF filtered(newData, "identifier") THEN newData.identifier.v
                  ELSE row.identifier,
   data |-> IF filtered(newData, "data") THEN stringify(newData.data.v)
            ELSE row.data,
   session_public |-> IF filtered(newData, "session_public")
                      THEN stringify(newData.session_public.v)
                      ELSE row.session_public,
   session_private |-> IF filtered(newData, "session_private")
                       THEN stringify(newData.session_private.v)
                       ELSE row.session_private]

\* PUT /user/:clientID/:userID
AdminPutUser(clientID, userID, header, newData) ==
  LET sec == ensureSecret(getSecretFromRequest(header), clientID)
  IN IF ~sec.ok
     THEN Answered("PUT /user", clientID, header, null, sec.err, sec.lookup, 0)
     ELSE LET rows == users[clientID]
              user == IndexOfId(rows, userID)
              updated == [i \in 1..Len(rows) |->
                            IF i \in user THEN setFields(rows[i], newData)
                            ELSE rows[i]]
              unique == \A i, j \in 1..Len(rows) :
                          updated[i].identifier = updated[j].identifier => i = j
          IN IF ~unique
             THEN Answered("PUT /user", clientID, header, null,
                           PlainError("UNIQUE constraint failed"), TRUE, 0)
             ELSE /\ users' = [users EXCEPT ![clientID] = updated]
                  /\ resp' = [Resp0 EXCEPT !.op = "PUT /user",
                                !.clientID = Some(clientID), !.userID = userID,
                                !.secret = header, !.lookup = TRUE,
                                !.req = [body |-> newData],
                                !.rowWritten = (user # {}),
                                !.status = IF user = {} THEN 404 ELSE 200,
                                !.error = IF user = {} THEN "User not found" ELSE "",
                                !.success = (user # {}),
                                !.list = MapParse(SelectSeq(updated,
                                            LAMBDA r : r.id = userID))]
                  /\ UNCHANGED <<projectTable, inviteLinks, tokens, now, nextId, rest>>

\* DELETE /user/:clientID/:userID
AdminDeleteUser(clientID, userID, header) ==
  LET sec == ensureSecret(getSecretFromRequest(header), clientID)
  IN IF ~sec.ok
     THEN Answered("DELETE /user", clientID, header, null, sec.err, sec.lookup, 0)
     ELSE /\ users' = [users EXCEPT ![clientID] =
                         SelectSeq(users[clientID], LAMBDA r : r.id # userID)]
          /\ resp' = [Resp0 EXCEPT !.op = "DELETE /user",
                        !.clientID = Some(clientID), !.userID = userID,
                        !.secret = header, !.lookup = TRUE,
                        !.rowWritten = (IndexOfId(users[clientID], userID) # {}),
                        !.status = 200, !.success = TRUE]
          /\ UNCHANGED <<projectTable, inviteLinks, tokens, now, nextId, rest>>

\* A query-string value is a string of decimal digits; an absent parameter
\* is null.
RECURSIVE Number(_)
Number(s) == IF s = <<>> THEN 0 ELSE 10 * Number(SubSeq(s, 1, Len(s) - 1)) + s[Len(s)]

NoQuery == [limit |-> null, page |-> null]
Queries ==
  {NoQuery, [limit |-> Some(<<1>>), page |-> Some(<<1>>)],
   [limit |-> Some(<<1>>), page |-> Some(<<2>>)]}

\* query.limit ? Number(query.limit) : undefined
parseFilters(query) ==
  [limit |-> IF query.limit = null \/ query.limit.v = <<>> THEN null
             ELSE Some(Number(query.limit.v)),
   page |-> IF query.page = null \/ query.page.v = <<>> THEN null
            ELSE Some(Number(query.page.v))]

Min(a, b) == IF a < b THEN a ELSE b

\* SELECT ... LIMIT limit OFFSET (page - 1) * limit when limit is truthy, the
\* whole table otherwise.  The variant before it counts pages from zero.
fetchUserList_PageFromZero(rows, filters) ==
  IF filters.limit # null /\ filters.limit.v # 0
  THEN LET offset == filters.page.v * filters.limit.v
       IN MapParse(SubSeq(rows, offset + 1,
                          Min(offset + filters.limit.v, Len(rows))))
  ELSE MapParse(rows)

fetchUserList(rows, filters) ==
  IF filters.limit # null /\ filters.limit.v # 0
  THEN LET offset == (filters.page.v - 1) * filters.limit.v
       IN MapParse(SubSeq(rows, offset + 1,
                          Min(offset + filters.limit.v, Len(rows))))
  ELSE MapParse(rows)

\* GET /users/:clientID
AdminListUsers(clientID, header, query) ==
  LET sec == ensureSecret(getSecretFromRequest(header), clientID)
  IN IF ~sec.ok
     THEN Answered("GET /users", clientID, header, null, sec.err, sec.lookup, 0)
     ELSE /\ resp' = [Resp0 EXCEPT !.op = "GET /users",
                        !.clientID = Some(clientID), !.secret = header,
                        !.lookup = TRUE, !.rowRead = TRUE, !.status = 200,
                        !.success = TRUE, !.req = [query |-> query],
                        !.list = fetchUserList(users[clientID],
                                               parseFilters(query))]
          /\ UNCHANGED <<projectTable, users, inviteLinks, tokens, now, nextId, rest>>

\* ------------------------------------------------------------------------
\* Credential gate: bearer token
\* ------------------------------------------------------------------------
\* An access token carries the subject it was signed for; a forged token
\* carries a subject nobody signed.
Signed(subject) == [signed |-> TRUE, subject |-> subject]
Forged == [signed |-> FALSE, subject |-> [id |-> 1, clientID |-> "beta"]]
Bearer(token) == Some([scheme |-> "Bearer", token |-> token])
Basic == Some([scheme |-> "Basic", token |-> Forged])

\* Authorization header values a client can send in the current state
AuthHeaders == {null, Basic, Bearer(Forged)} \cup {Bearer(Signed(s)) : s \in tokens}

getTokenFromRequest(header) ==
  IF header = null \/ header.v.scheme # "Bearer" THEN null ELSE Some(header.v.token)

\* createSelfClient({clientID}).verify(subjects, token): the token has to be
\* signed by the issuer of that tenant
verify(token, clientID) ==
  IF token.signed /\ token.subject \in tokens /\ token.subject.clientID = clientID
  THEN [err |-> FALSE, subject |-> token.subject]
  ELSE [err |-> TRUE, subject |-> token.subject]

\* a verification that accepts a token signed for any tenant
ensureToken_AnyTenant(token, clientID) ==
  IF token = null
  THEN [ok |-> FALSE, properties |-> [id |-> 0, clientID |-> clientID],
        err |-> PartialRequestError("Unauthorized: Missing token", 401)]
  ELSE IF ~token.v.signed
  THEN [ok |-> FALSE, properties |-> [id |-> 0, clientID |-> clientID],
        err |-> PartialRequestError("Unauthorized: Invalid token", 401)]
  ELSE [ok |-> TRUE, properties |-> token.v.subject, err |-> NoError]

ensureToken(token, clientID) ==
  IF token = null
  THEN [ok |-> FALSE, properties |-> [id |-> 0, clientID |-> clientID],
        err |-> PartialRequestError("Unauthorized: Missing token", 401)]
  ELSE LET verified == verify(token.v, clientID)
       IN IF verified.err
          THEN [ok |-> FALSE, properties |-> [id |-> 0, clientID |-> clientID],
                err |-> PartialRequestError("Unauthorized: Invalid token", 401)]
          ELSE [ok |-> TRUE, properties |-> verified.subject, err |-> NoError]

\* ------------------------------------------------------------------------
\* Session documents
\* ------------------------------------------------------------------------
NotFound(rows) ==
  [success |-> FALSE, error |-> "User not found", data |-> NoBody, rows |-> rows]
Found(rows, data) ==
  [success |-> TRUE, error |-> "", data |-> data, rows |-> rows]

\* currentData.data?.public || {}
orEmpty(v) == IF v = JNull THEN JObj(EmptyObj) ELSE v

getUserPrivateData(rows, userID) ==
  LET el == IndexOfId(rows, userID)
  IN IF el = {} THEN NotFound(rows)
     ELSE LET row == rows[CHOOSE i \in el : TRUE]
          IN Found(rows, [private |-> parseOrNull(row.session_private),
                          public |-> parseOrNull(row.session_public),
                          user_id |-> row.id])

\* a read of the public document that also selects the private column
getUserPublicData_WithPrivate(rows, userID) == getUserPrivateData(rows, userID)

getUserPublicData(rows, userID) ==
  LET el == IndexOfId(rows, userID)
  IN IF el = {} THEN NotFound(rows)
     ELSE LET row == rows[CHOOSE i \in el : TRUE]
          IN Found(rows, [public |-> parseOrNull(row.session_public),
                          private |-> JNull, user_id |-> row.id])

\* updateUserPublicData: SELECT, merge, UPDATE ... SET session_public WHERE
\* id = userID.  The variant before it is an UPDATE without the WHERE clause.
updateUserPublicData_EveryRow(rows, userID, newData, skipMerge) ==
  LET currentData == getUserPublicData(rows, userID)
  IN IF ~currentData.success THEN NotFound(rows)
     ELSE LET mergedData ==
                IF skipMerge THEN newData
                ELSE JObj(spreadMerge(spread(orEmpty(currentData.data.public)),
                                      spread(newData)))
              el == [i \in 1..Len(rows) |->
                       [rows[i] EXCEPT !.session_public = stringify(mergedData)]]
              row == el[CHOOSE i \in IndexOfId(rows, userID) : TRUE]
          IN Found(el, [public |-> parse(row.session_public), private |-> JNull,
                        user_id |-> userID])
updateUserPublicData(rows, userID, newData, skipMerge) ==
  LET currentData == getUserPublicData(rows, userID)
  IN IF ~currentData.success THEN NotFound(rows)
     ELSE LET mergedData ==
                IF skipMerge THEN newData
                ELSE JObj(spreadMerge(spread(orEmpty(currentData.data.public)),
                                      spread(newData)))
              el == [i \in 1..Len(rows) |->
                       IF rows[i].id = userID
                       THEN [rows[i] EXCEPT !.session_public = stringify(mergedData)]
                       ELSE rows[i]]
              row == el[CHOOSE i \in IndexOfId(rows, userID) : TRUE]
          IN Found(el, [public |-> parse(row.session_public), private |-> JNull,
                        user_id |-> userID])

updateUserPrivateData(rows, userID, newData, skipMerge) ==
  LET currentData == getUserPrivateData(rows, userID)
  IN IF ~currentData.success THEN currentData
     ELSE LET mergedData ==
                IF skipMerge THEN newData
                ELSE JObj(spreadMerge(spread(currentData.data.private),
                                      spread(newData)))
              el == [i \in 1..Len(rows) |->
                       IF rows[i].id = userID
                       THEN [rows[i] EXCEPT !.session_private = stringify(mergedData)]
                       ELSE rows[i]]
              row == el[CHOOSE i \in IndexOfId(rows, userID) : TRUE]
          IN Found(el, [private |-> parse(row.session_private),
                        public |-> parseCoerced(row.session_public),
                        user_id |-> userID])

\* The four session operations called on their own
SessionCall(op, clientID, userID, newData, skipMerge, result) ==
  /\ users' = [users EXCEPT ![clientID] = result.rows]
  /\ resp' = [Resp0 EXCEPT !.op = op, !.clientID = Some(clientID),
                !.userID = userID, !.patch = newData, !.skipMerge = skipMerge,
                !.success = result.success, !.error = result.error,
                !.body = result.data, !.rowRead = TRUE,
                !.rowWritten = (result.rows # users[clientID])]
  /\ UNCHANGED <<projectTable, inviteLinks, tokens, now, nextId, rest>>

GetPublic(clientID, userID) ==
  SessionCall("getUserPublicData", clientID, userID, JNull, FALSE,
              getUserPublicData(users[clientID], userID))

GetPrivate(clientID, userID) ==
  SessionCall("getUserPrivateData", clientID, userID, JNull, FALSE,
              getUserPrivateData(users[clientID], userID))

UpdatePublic(clientID, userID, newData, skipMerge) ==
  SessionCall("updateUserPublicData", clientID, userID, newData, skipMerge,
              updateUserPublicData(users[clientID], userID, newData, skipMerge))

UpdatePrivate(clientID, userID, newData, skipMerge) ==
  SessionCall("updateUserPrivateData", clientID, userID, newData, skipMerge,
              updateUserPrivateData(users[clientID], userID, newData, skipMerge))

\* ------------------------------------------------------------------------
\* Session endpoints
\* ------------------------------------------------------------------------
\* c.json(result, 200)
sessionOk(op, clientID, header, auth, userInfo, data, skipMerge, result) ==
  [Resp0 EXCEPT !.op = op, !.clientID = Some(clientID),
     !.secret = header, !.auth = auth, !.userID = userInfo.id,
     !.patch = data, !.skipMerge = skipMerge, !.status = 200,
     !.success = result.success, !.error = result.error,
     !.body = result.data, !.lookup = (header # null),
     !.rowRead = TRUE,
     !.rowWritten = (result.rows # users[userInfo.clientID])]

SessionOk(op, clientID, header, auth, userInfo, data, skipMerge, result) ==
  /\ users' = [users EXCEPT ![userInfo.clientID] = result.rows]
  /\ resp' = sessionOk(op, clientID, header, auth, userInfo, data, skipMerge,
                       result)
  /\ UNCHANGED <<projectTable, inviteLinks, tokens, now, nextId, rest>>

\* GET /session/public/:clientID
SessionPublicGet(clientID, auth) ==
  LET userInfo == ensureToken(getTokenFromRequest(auth), clientID)
  IN IF ~userInfo.ok
     THEN Answered("GET /session/public", clientID, null, auth, userInfo.err,
                   FALSE, 0)
     ELSE SessionOk("GET /session/public", clientID, null, auth,
                    userInfo.properties, JNull, FALSE,
                    getUserPublicData(users[userInfo.properties.clientID],
                                      userInfo.properties.id))

\* PATCH /session/public/:clientID
SessionPublicPatch(clientID, auth, data) ==
  LET userInfo == ensureToken(getTokenFromRequest(auth), clientID)
  IN IF ~userInfo.ok
     THEN Answered("PATCH /session/public", clientID, null, auth, userInfo.err,
                   FALSE, 0)
     ELSE LET updateResult ==
                updateUserPublicData(users[userInfo.properties.clientID],
                                     userInfo.properties.id, data, FALSE)
          IN IF ~updateResult.success
             THEN Answered("PATCH /session/public", clientID, null, auth,
                           PartialRequestError(updateResult.error, 400),
                           FALSE, userInfo.properties.id)
             ELSE SessionOk("PATCH /session/public", clientID, null, auth,
                            userInfo.properties, data, FALSE, updateResult)

\* DELETE /session/public/:clientID
SessionPublicDelete(clientID, auth) ==
  LET userInfo == ensureToken(getTokenFromRequest(auth), clientID)
  IN IF ~userInfo.ok
     THEN Answered("DELETE /session/public", clientID, null, auth, userInfo.err,
                   FALSE, 0)
     ELSE LET updateResult ==
                updateUserPublicData(users[userInfo.properties.clientID],
                                     userInfo.properties.id, JNull, TRUE)
          IN IF ~updateResult.success
             THEN Answered("DELETE /session/public", clientID, null, auth,
                           RequestError(updateResult.error, 400),
                           FALSE, userInfo.properties.id)
             ELSE SessionOk("DELETE /session/public", clientID, null, auth,
                            userInfo.properties, JNull, TRUE, updateResult)

\* The part the three private endpoints share: secret check, token check,
\* then the operation on the row the token names; a failed operation is
\* thrown as a RequestError with status 400.
SessionPrivate(op, clientID, header, auth, data, skipMerge, isUpdate) ==
  LET sec == ensureSecret(getSecretFromRequest(header), clientID)
      userInfo == ensureToken(getTokenFromRequest(auth), clientID)
  IN IF ~sec.ok
     THEN Answered(op, clientID, header, auth, sec.err, sec.lookup, 0)
     ELSE IF ~userInfo.ok
     THEN Answered(op, clientID, header, auth, userInfo.err, TRUE, 0)
     ELSE LET rows == users[userInfo.properties.clientID]
              result ==
                IF isUpdate
                THEN updateUserPrivateData(rows, userInfo.properties.id, data,
                                           skipMerge)
                ELSE getUserPrivateData(rows, userInfo.properties.id)
          IN IF ~result.success
             THEN Answered(op, clientID, header, auth,
                           RequestError(result.error, 400), TRUE,
                           userInfo.properties.id)
             ELSE SessionOk(op, clientID, header, auth, userInfo.properties,
                            data, skipMerge, result)

\* GET /session/private/:clientID
SessionPrivateGet(clientID, header, auth) ==
  SessionPrivate("GET /session/private", clientID, header, auth, JNull, FALSE,
                 FALSE)

\* PATCH /session/private/:clientID
SessionPrivatePatch(clientID, header, auth, data) ==
  SessionPrivate("PATCH /session/private", clientID, header, auth, data, FALSE,
                 TRUE)

\* DELETE /session/private/:clientID
SessionPrivateDelete(clientID, header, auth) ==
  SessionPrivate("DELETE /session/private", clientID, header, auth, JNull, TRUE,
                 TRUE)

\* Time passes
Tick ==
  /\ now < MaxNow
  /\ now' = now + 1
  /\ UNCHANGED <<projectTable, users, inviteLinks, tokens, nextId, resp, rest>>

\* ------------------------------------------------------------------------
\* Initial state: the management plane has created two tenants (acme is
\* invite-only) and two invite links; no user has logged in yet.
\* ------------------------------------------------------------------------
Init ==
  /\ projectTable =
       [c \in Tenants |->
          [clientID |-> c,
           secret |-> IF c = "acme" THEN S1 ELSE S2,
           registerOnInvite |-> (c = "acme"),
           originURL |-> "https://" \o c \o ".example"]]
  /\ users = [c \in Tenants |-> <<>>]
  /\ inviteLinks =
       {[id |-> "inv1", clientID |-> "acme", expiresAt |-> MaxNow - 1],
        [id |-> "inv2", clientID |-> "beta", expiresAt |-> MaxNow]}
  /\ tokens = {}
  /\ now = 0
  /\ nextId = 1
  /\ resp = Resp0
  /\ cli = Idle
  /\ inflight = [p \in Callers |-> NoCall]
  /\ currentProjectCache = EmptyObj
  /\ everStored = {projectTable[c] : c \in DOMAIN projectTable}
  /\ storageTable = NoTable
  /\ written = [key \in StorageKeys |-> NoWrite]

OptInviteIDs == {null} \cup {Some(i) : i \in InviteIDs}
SomeValue == CHOOSE v \in PasswordValues : TRUE

\* A provider flow of a tenant ends in success
Login ==
  \E c \in Tenants, inv \in OptInviteIDs, v \in Values, f \in BOOLEAN :
    AuthSuccess(Some(c), inv, v, f)

\* A request without a client id, or for a client id without a project row
LoginUnknown ==
  \E c \in {null, Some("ghost")} : AuthSuccess(c, null, SomeValue, FALSE)

LoginRM ==
  \E c \in Tenants, inv \in OptInviteIDs, v \in Values, f \in BOOLEAN :
    FetchSuccess(Some(c), inv, v, f)

LoginUnknownRM ==
  \E c \in {null, Some("ghost")} : FetchSuccess(c, null, SomeValue, FALSE)

\* The Hono endpoints' authentication flow
Next == Login \/ LoginUnknown \/ Tick
Spec == Init /\ [][Next]_vars

\* The RequestManager dispatcher's authentication flow
NextRM == LoginRM \/ LoginUnknownRM \/ Tick
SpecRM == Init /\ [][NextRM]_vars

\* Registrations that fill the user table the admin and session endpoints
\* work on: one password user and one OIDC user of tenant beta
RegisterValues == {v \in Values : v.provider = "password" \/ v.id.sub = "i2"}
Register == \E v \in RegisterValues : AuthSuccess(Some("beta"), null, v, FALSE)

SecretCheck == \E s \in Secrets, c \in ClientIDs : VerifySecret(s, c)

AdminGet ==
  \E c \in ClientIDs, u \in UserIDs, h \in SecretHeaders : AdminGetUser(c, u, h)
AdminPut ==
  \E c \in ClientIDs, u \in UserIDs, h \in SecretHeaders, b \in PutBodies :
    AdminPutUser(c, u, h, b)
AdminDelete ==
  \E c \in ClientIDs, u \in UserIDs, h \in SecretHeaders : AdminDeleteUser(c, u, h)
AdminList ==
  \E c \in ClientIDs, h \in SecretHeaders, q \in Queries : AdminListUsers(c, h, q)

\* The tenant secret and the admin endpoints
NextAdmin ==
  Register \/ SecretCheck \/ AdminGet \/ AdminPut \/ AdminDelete \/ AdminList
SpecAdmin == Init /\ [][NextAdmin]_vars

\* One user of tenant beta registers
RegisterOne == AuthSuccess(Some("beta"), null, SomeValue, FALSE)

\* The tenant's backend deletes a user, which leaves the user's token valid
DropUser == \E u \in UserIDs : AdminDeleteUser("beta", u, Some(S2))

Patches == {JObj([a |-> 1]), JObj([b |-> 2])}
SessionSecrets == {null, Some(S1), Some(S2)}

PublicGet == \E c \in Tenants, a \in AuthHeaders : SessionPublicGet(c, a)
PublicPatch ==
  \E c \in Tenants, a \in AuthHeaders, d \in Patches : SessionPublicPatch(c, a, d)
PublicDelete == \E c \in Tenants, a \in AuthHeaders : SessionPublicDelete(c, a)
PrivateGet ==
  \E c \in Tenants, h \in SessionSecrets, a \in AuthHeaders :
    SessionPrivateGet(c, h, a)
PrivatePatch ==
  \E c \in Tenants, h \in SessionSecrets, a \in AuthHeaders :
    SessionPrivatePatch(c, h, a, JObj([a |-> 1]))
PrivateDelete ==
  \E c \in Tenants, h \in SessionSecrets, a \in AuthHeaders :
    SessionPrivateDelete(c, h, a)

\* The session endpoints
NextSession ==
  \/ RegisterOne \/ DropUser
  \/ PublicGet \/ PublicPatch \/ PublicDelete
  \/ PrivateGet \/ PrivatePatch \/ PrivateDelete
SpecSession == Init /\ [][NextSession]_vars

\* Documents and patches the session operations are called with
MergePatches == Patches \cup {JNull, JObj([a |-> 2])}

CallGetPublic == \E c \in Tenants, u \in UserIDs : GetPublic(c, u)
CallGetPrivate == \E c \in Tenants, u \in UserIDs : GetPrivate(c, u)
CallUpdatePublic ==
  \E c \in Tenants, u \in UserIDs, d \in MergePatches, k \in BOOLEAN :
    UpdatePublic(c, u, d, k)
CallUpdatePrivate ==
  \E c \in Tenants, u \in UserIDs, d \in MergePatches, k \in BOOLEAN :
    UpdatePrivate(c, u, d, k)
OwnPatch ==
  \E s \in tokens, d \in Patches : SessionPublicPatch("beta", Bearer(Signed(s)), d)
OwnGet == \E s \in tokens : SessionPublicGet("beta", Bearer(Signed(s)))

\* The session operations, and the public endpoints used by the token's owner
NextMerge ==
  \/ RegisterOne
  \/ CallGetPublic \/ CallGetPrivate \/ CallUpdatePublic \/ CallUpdatePrivate
  \/ OwnPatch \/ OwnGet
SpecMerge == Init /\ [][NextMerge]_vars

\* A tenant whose users registered with the password provider, in this order
\* ------------------------------------------------------------------------
\* SpecPut: registrations in tenant beta and PUT /user with every body of
\* PutBodiesWide, with the tenant's secret and with another tenant's.
\* ------------------------------------------------------------------------
PutWide ==
  \E u \in UserIDs, h \in {Some(S1), Some(S2)}, b \in PutBodiesWide :
    AdminPutUser("beta", u, h, b)

NextPut == Register \/ PutWide

SpecPut == Init /\ [][NextPut]_vars

PasswordRow(k) ==
  [id |-> k, identifier |-> "i" \o ToString(k),
   data |-> stringify(JObj([email |-> "i" \o ToString(k),
                            provider |-> "password"])),
   session_public |-> SQLNULL, session_private |-> SQLNULL]

InitList ==
  \E n \in 0..MaxRows :
    /\ projectTable =
         [c \in Tenants |->
            [clientID |-> c,
             secret |-> IF c = "acme" THEN S1 ELSE S2,
             registerOnInvite |-> (c = "acme"),
           originURL |-> "https://" \o c \o ".example"]]
    /\ users = [c \in Tenants |->
                  IF c = "beta" THEN [k \in 1..n |-> PasswordRow(k)] ELSE <<>>]
    /\ inviteLinks =
         {[id |-> "inv1", clientID |-> "acme", expiresAt |-> MaxNow - 1],
          [id |-> "inv2", clientID |-> "beta", expiresAt |-> MaxNow]}
    /\ tokens = {[id |-> k, clientID |-> "beta"] : k \in 1..n}
    /\ now = 0
    /\ nextId = n + 1
    /\ resp = Resp0
    /\ cli = Idle
    /\ inflight = [p \in Callers |-> NoCall]
    /\ currentProjectCache = EmptyObj
    /\ everStored = {projectTable[c] : c \in DOMAIN projectTable}
    /\ storageTable = NoTable
    /\ written = [key \in StorageKeys |-> NoWrite]
  /\ storageTable = NoTable
  /\ written = [key \in StorageKeys |-> NoWrite]

ListQueries ==
  {NoQuery} \cup {[limit |-> Some(<<l>>), page |-> Some(<<p>>)] :
                    l \in 1..MaxRows, p \in 1..MaxRows}
PagedList ==
  \E c \in ClientIDs, h \in SecretHeaders, q \in ListQueries :
    AdminListUsers(c, h, q)
DropRow == \E u \in 1..MaxRows : AdminDeleteUser("beta", u, Some(S2))

\* Paging through the user list of a tenant
NextList == Register \/ DropRow \/ PagedList
SpecList == InitList /\ [][NextList]_vars

\* ------------------------------------------------------------------------
\* Request context.  A request carries a method, a path, query parameters,
\* form fields (POST only) and cookies.  A client_id value is a string that
\* may hold a copy-template id after "::"; it is written as the sequence of
\* its parts with the separator as a part of its own, so that split("::")
\* has something to do.
\* ------------------------------------------------------------------------
Sep == "::"

RECURSIVE text(_)
text(s) == IF s = <<>> THEN "" ELSE s[1] \o text(Tail(s))

\* String.prototype.split(sep): the pieces between the separators
RECURSIVE splitBy(_, _)
splitBy(s, sep) ==
  IF \A i \in 1..Len(s) : s[i] # sep
  THEN <<s>>
  ELSE LET i == CHOOSE k \in 1..Len(s) :
                  s[k] = sep /\ \A j \in 1..(k - 1) : s[j] # sep
       IN <<SubSeq(s, 1, i - 1)>> \o splitBy(SubSeq(s, i + 1, Len(s)), sep)

\* split("::")
split(s) == LET pieces == splitBy(s, Sep) IN [k \in 1..Len(pieces) |-> text(pieces[k])]

\* pieces?.[k - 1]
pieceAt(pieces, k) ==
  IF pieces = null \/ k > Len(pieces.v) THEN null ELSE Some(pieces.v[k])

\* a || b
Truthy(x) == x # null /\ x.v # ""
Or(a, b) == IF Truthy(a) THEN a ELSE b

NoQueryParams == [client_id |-> null, copy_id |-> null, invite_id |-> null]
NoForm == [client_id |-> null, copy_id |-> null, email |-> null, action |-> null]
NoCookies == [client_id |-> null, copy_id |-> null, invite_id |-> null]

\* index.ts: the tenant and the copy template both come from client_id,
\* in the query, in the form of a POST, or in their cookies
requestToParamsRM(r) ==
  LET clientIDParams ==
        IF r.query.client_id = null THEN null
        ELSE Some(split(r.query.client_id.v))
      inviteID == Or(r.query.invite_id, null)
      formData == IF r.method = "POST" THEN Some(r.form) ELSE null
      clientIDParamsForm ==
        IF formData = null \/ formData.v.client_id = null THEN null
        ELSE Some(split(formData.v.client_id.v))
  IN [clientID |-> Or(pieceAt(clientIDParams, 1),
                      Or(pieceAt(clientIDParamsForm, 1),
                         Or(r.cookies.client_id, null))),
      inviteID |-> Or(inviteID, Or(r.cookies.invite_id, null)),
      copyID |-> Or(pieceAt(clientIDParams, 2),
                    Or(pieceAt(clientIDParamsForm, 2),
                       Or(r.cookies.copy_id, null)))]

\* d1-adapter.ts: client_id, copy_id and invite_id of the query, or their
\* cookies
requestToParams(r) ==
  LET clientIDParams ==
        IF r.query.client_id = null THEN null
        ELSE Or(Some(text(r.query.client_id.v)), null)
      copyIDParams == Or(r.query.copy_id, null)
      inviteID == Or(r.query.invite_id, null)
  IN [clientID |-> Or(clientIDParams, Or(r.cookies.client_id, null)),
      inviteID |-> Or(inviteID, Or(r.cookies.invite_id, null)),
      copyID |-> Or(copyIDParams, Or(r.cookies.copy_id, null))]

\* ------------------------------------------------------------------------
\* SpecParams: both resolvers applied to requests that name the three
\* identifiers in any combination of query, form and cookies.
\* ------------------------------------------------------------------------
ParamRequests ==
  {r \in [method : {"GET", "POST"},
          path : {"/authorize"},
          query : [client_id : {null, Some(<<"acme">>), Some(<<"acme", Sep, "t1">>)},
                   copy_id : {null, Some("t2")},
                   invite_id : {null, Some("inv1")}],
          form : [client_id : {null, Some(<<"beta">>), Some(<<"beta", Sep, "t3">>)},
                  copy_id : {null, Some("t4")},
                  email : {null}, action : {null}],
          cookies : [client_id : {null, Some("beta")},
                     copy_id : {null, Some("t5")},
                     invite_id : {null, Some("inv2")}]] :
     r.method = "GET" => r.form = NoForm}

Resolved(op, r, params) ==
  /\ resp' = [Resp0 EXCEPT !.op = op, !.req = r, !.out = params]
  /\ UNCHANGED <<projectTable, users, inviteLinks, tokens, now, nextId, rest>>

Resolve == \E r \in ParamRequests : Resolved("requestToParams", r, requestToParams(r))
ResolveRM ==
  \E r \in ParamRequests :
    Resolved("RequestManager.requestToParams", r, requestToParamsRM(r))

NextParams == Resolve \/ ResolveRM
SpecParams == Init /\ [][NextParams]_vars

\* ------------------------------------------------------------------------
\* Cookies.  A Set-Cookie value is written as the sequence of the parts that
\* "; " separates.
\* ------------------------------------------------------------------------
COOKIE_NAME == "COOKIE_NAME"
COOKIE_COPY_TEMPLATE_ID == "COOKIE_COPY_TEMPLATE_ID"
COOKIE_INVITE_ID == "COOKIE_INVITE_ID"

NoOptions == [httpOnly |-> FALSE, secure |-> FALSE, sameSite |-> null, maxAge |-> null]

createCookieContent(name, value, options) ==
  <<name \o "=" \o value>>
  \o (IF options.httpOnly THEN <<"HttpOnly">> ELSE <<>>)
  \o (IF options.secure THEN <<"Secure">> ELSE <<>>)
  \o (IF options.sameSite # null THEN <<"SameSite=" \o options.sameSite.v>> ELSE <<>>)
  \o (IF options.maxAge # null THEN <<"Max-Age=" \o ToString(options.maxAge.v)>> ELSE <<>>)

createInviteIdCookieContent(inviteId) ==
  createCookieContent(COOKIE_INVITE_ID, inviteId,
    [NoOptions EXCEPT !.httpOnly = TRUE, !.maxAge = Some(60 * 60 * 24 * 1)])

createClientIdCookieContent(clientId) ==
  createCookieContent(COOKIE_NAME, clientId,
    [NoOptions EXCEPT !.httpOnly = TRUE, !.secure = TRUE,
                      !.sameSite = Some("None"), !.maxAge = Some(60 * 60 * 24 * 30)])

createCopyIdCookieContent(copyId) ==
  createCookieContent(COOKIE_COPY_TEMPLATE_ID, copyId,
    [NoOptions EXCEPT !.httpOnly = TRUE, !.secure = TRUE,
                      !.sameSite = Some("None"), !.maxAge = Some(60 * 60 * 24 * 30)])

\* hono/cookie setCookie: name=value; Max-Age; Path (default "/"); HttpOnly;
\* Secure; SameSite
setCookie(name, value, options) ==
  <<name \o "=" \o value>>
  \o (IF options.maxAge # null THEN <<"Max-Age=" \o ToString(options.maxAge.v)>> ELSE <<>>)
  \o <<"Path=/">>
  \o (IF options.httpOnly THEN <<"HttpOnly">> ELSE <<>>)
  \o (IF options.secure THEN <<"Secure">> ELSE <<>>)
  \o (IF options.sameSite # null THEN <<"SameSite=" \o options.sameSite.v>> ELSE <<>>)

\* `${value}` of a string | null
template(x) == IF x = null THEN "null" ELSE x.v

\* RequestManager.before: the Set-Cookie headers of the response
before(params) ==
  (IF Truthy(params.clientID) \/ Truthy(params.copyID)
   THEN <<createClientIdCookieContent(template(params.clientID))>> ELSE <<>>)
  \o (IF Truthy(params.copyID)
      THEN <<createCopyIdCookieContent(params.copyID.v)>> ELSE <<>>)
  \o (IF Truthy(params.inviteID)
      THEN <<createInviteIdCookieContent(params.inviteID.v)>> ELSE <<>>)

\* the cookies the first middleware of the Hono endpoints sets after next()
afterNext(params) ==
  (IF Truthy(params.clientID)
   THEN <<setCookie(COOKIE_NAME, params.clientID.v,
            [NoOptions EXCEPT !.httpOnly = TRUE, !.maxAge = Some(60 * 60 * 24 * 1)])>>
   ELSE <<>>)
  \o (IF Truthy(params.copyID)
      THEN <<setCookie(COOKIE_COPY_TEMPLATE_ID, params.copyID.v,
               [NoOptions EXCEPT !.httpOnly = TRUE, !.maxAge = Some(60 * 60 * 24 * 1)])>>
      ELSE <<>>)
  \o (IF Truthy(params.inviteID)
      THEN <<setCookie(COOKIE_INVITE_ID, params.inviteID.v,
               [NoOptions EXCEPT !.maxAge = Some(60 * 60 * 24), !.httpOnly = TRUE])>>
      ELSE <<>>)

\* ------------------------------------------------------------------------
\* Admin allowlist of the public tenant.  Emails are character strings with
\* " " as whitespace and "," between the entries of WEBUI_ADMIN_EMAILS.
\* ------------------------------------------------------------------------
WEBUI_ADMIN_EMAILS == <<"a", ",", " ", "b">>

Emails == {<<"a">>, <<"b">>, <<"A">>, <<" ", "a">>, <<"c">>, <<>>}

\* index.ts: the error handleWebUIRegister throws, if any.  The variant
\* before it compares with the entries as they stand between the commas.
handleWebUIRegister_RawEntries(params, r) ==
  IF params.clientID = Some("openauth_webui") /\ r.method = "POST"
     /\ r.path \in {"/register", "/password/register"}
  THEN LET email == IF r.form.email = null THEN null ELSE Some(trim(r.form.email.v))
           entries == splitBy(WEBUI_ADMIN_EMAILS, ",")
       IN IF /\ email # null /\ email.v # <<>>
             /\ ~\E k \in 1..Len(entries) : entries[k] = email.v
          THEN RequestError("Unauthorized: Email not allowed for registration", 401)
          ELSE NoError
  ELSE NoError

handleWebUIRegister(params, r) ==
  IF params.clientID = Some("openauth_webui") /\ r.method = "POST"
     /\ r.path \in {"/register", "/password/register"}
  THEN LET email == IF r.form.email = null THEN null ELSE Some(trim(r.form.email.v))
           entries == splitBy(WEBUI_ADMIN_EMAILS, ",")
       IN IF /\ email # null /\ email.v # <<>>
             /\ ~\E k \in 1..Len(entries) : trim(entries[k]) = email.v
          THEN RequestError("Unauthorized: Email not allowed for registration", 401)
          ELSE NoError
  ELSE NoError

\* d1-adapter.ts: whether the /password/register middleware answers 401
registerRefused(params, r) ==
  /\ r.path = "/password/register"
  /\ params.clientID = Some(PUBLIC_CLIENT_ID)
  /\ r.method = "POST"
  /\ r.form.action = Some("register")
  /\ LET entries == splitBy(WEBUI_ADMIN_EMAILS, ",")
         isAdmin == \E k \in 1..Len(entries) :
                      r.form.email # null /\ trim(entries[k]) = r.form.email.v
     IN ~isAdmin

\* ------------------------------------------------------------------------
\* Dispatchers.  A response is [status, body, cookies, headers, engine,
\* raised, logged]: engine says whether issuer(...).fetch ran, raised which
\* kind of error reached the catch block, logged whether insertLog was
\* called.  setup says whether building the providers and the
\* theme of the tenant threw.
\* ------------------------------------------------------------------------
NoHeaders == [acao |-> null, credentials |-> null, methods |-> null]

\* project?.originURL || env.WEBUI_ORIGIN_URL.  The variant before it leaves
\* the wildcard in place when no project was found.
originOf_Wildcard(project) ==
  IF project # null /\ project.v.originURL # "" THEN project.v.originURL
  ELSE "*"

originOf(project) ==
  IF project # null /\ project.v.originURL # "" THEN project.v.originURL
  ELSE WEBUI_ORIGIN_URL

\* RequestManager.init: the headers every prepared response gets
init == [acao |-> Some("*"), credentials |-> Some("true"),
         methods |-> Some("GET, POST, OPTIONS")]

\* RequestManager.prepare
prepare(response, header, cookies, project) ==
  [response EXCEPT !.cookies = cookies,
                   !.headers = [header EXCEPT !.acao = Some(originOf(project))]]

\* index.ts _fetch
fetch(r, setup) ==
  LET params == requestToParamsRM(r)
      client_id == params.clientID
      project == IF Truthy(client_id) THEN getProjectById(client_id.v) ELSE null
      gate == handleWebUIRegister(params, r)
      error ==
        IF ~Truthy(client_id) THEN RequestError("Missing client_id", 400)
        ELSE IF project = null
        THEN RequestError("Invalid client_id or project not found", 400)
        ELSE IF gate # NoError THEN gate
        ELSE IF setup = "throws" THEN PlainError("Invalid provider config")
        ELSE NoError
      bare(status, body) ==
        [params |-> params, status |-> status, body |-> body, cookies |-> <<>>,
         headers |-> NoHeaders, engine |-> (error = NoError),
         raised |-> error.kind, logged |-> (error # NoError)]
  IN IF error = NoError
     THEN prepare(bare(200, "issuer response"), init, before(params), project)
     ELSE IF error.kind = "RequestError"
     THEN prepare(bare(error.status, error.message), init, before(params), project)
     ELSE bare(500, "Internal Server Error")

\* d1-adapter.ts, first middleware: the project it looks up before next()
contextProject(params) ==
  IF Truthy(params.clientID) THEN getProjectById(params.clientID.v) ELSE null

\* ... and the cookies and headers it puts on the response after next()
middleware(r) ==
  LET params == requestToParams(r)
  IN [params |-> params,
      cookies |-> afterNext(params),
      headers |-> [acao |-> Some(originOf(contextProject(params))),
                   credentials |-> Some("true"),
                   methods |-> Some("GET, PATCH, OPTIONS, DELETE, POST")]]

\* d1-adapter.ts: first middleware, auth middleware, /password/register
\* middleware and endpoints.all, for a request whose providers build
dispatch(r) ==
  LET params == requestToParams(r)
      project == contextProject(params)
      next ==
        IF ~Truthy(params.clientID)
        THEN [status |-> 401, body |-> "Unauthorized: Missing client ID", engine |-> FALSE]
        ELSE IF project = null
        THEN [status |-> 401, body |-> "Invalid client_id or project not found",
              engine |-> FALSE]
        ELSE IF registerRefused(params, r)
        THEN [status |-> 401, body |-> "Unauthorized: Not an admin email",
              engine |-> FALSE]
        ELSE [status |-> 200, body |-> "issuer response", engine |-> TRUE]
  IN [params |-> params, status |-> next.status, body |-> next.body,
      cookies |-> middleware(r).cookies,
      headers |-> middleware(r).headers,
      engine |-> next.engine, raised |-> "none", logged |-> FALSE]

\* ------------------------------------------------------------------------
\* SpecDispatch: both dispatchers on requests that name the tenant, the copy
\* template and the invite in query and cookies, and on registration forms.
\* ------------------------------------------------------------------------
ContextRequests ==
  {r \in [method : {"GET", "POST"},
          path : {"/authorize"},
          query : [client_id : {null, Some(<<"acme">>), Some(<<"acme", Sep, "t1">>),
                                Some(<<"ghost">>)},
                   copy_id : {null},
                   invite_id : {null, Some("inv1")}],
          form : {NoForm},
          cookies : [client_id : {null, Some("beta")},
                     copy_id : {null, Some("t5")},
                     invite_id : {null}]] : TRUE}

RegisterRequests ==
  [method : {"GET", "POST"},
   path : {"/authorize", "/password/register"},
   query : {[NoQueryParams EXCEPT !.client_id = Some(<<c>>)] :
              c \in {PUBLIC_CLIENT_ID, "acme"}},
   form : {f \in [client_id : {null}, copy_id : {null},
                  email : {null} \cup {Some(e) : e \in Emails},
                  action : {null, Some("register"), Some("verify")}] : TRUE},
   cookies : {NoCookies}]

DispatchRequests ==
  ContextRequests
  \cup {r \in RegisterRequests : r.method = "GET" => r.form = NoForm}

Answer(op, r, response) ==
  /\ resp' = [Resp0 EXCEPT !.op = op, !.req = r, !.out = response,
                           !.clientID = response.params.clientID,
                           !.status = response.status, !.error = response.body]
  /\ UNCHANGED <<projectTable, users, inviteLinks, tokens, now, nextId, rest>>

Fetch ==
  \E r \in DispatchRequests, setup \in {"ok", "throws"} :
    Answer("_fetch", r, fetch(r, setup))

Dispatch == \E r \in DispatchRequests : Answer("endpoints", r, dispatch(r))

NextDispatch == Fetch \/ Dispatch
SpecDispatch == Init /\ [][NextDispatch]_vars

\* ------------------------------------------------------------------------
\* SpecToken: GET /session/public with a verifier that answers or raises.
\* selfClient.verify fetches the issuer's key set before it looks at the
\* token; when that fetch fails the promise rejects, and ensureToken has no
\* catch around the call.
\* ------------------------------------------------------------------------
VerifierOutcomes == {"answers", "raises"}
VerifyRejection == PlainError("fetch failed")

ensureTokenWith(token, clientID, verifier) ==
  IF token # null /\ verifier = "raises"
  THEN [ok |-> FALSE, properties |-> [id |-> 0, clientID |-> clientID],
        err |-> VerifyRejection]
  ELSE ensureToken(token, clientID)

\* GET /session/public/:clientID; out.thrown is the RequestError the catch
\* block throws
SessionPublicGetWith(clientID, auth, verifier) ==
  LET userInfo == ensureTokenWith(getTokenFromRequest(auth), clientID, verifier)
      thrown == handlerCatch(userInfo.err)
  IN IF ~userInfo.ok
     THEN /\ resp' = [Resp0 EXCEPT !.op = "GET /session/public",
                        !.clientID = Some(clientID), !.auth = auth,
                        !.req = [verifier |-> verifier],
                        !.out = [thrown |-> thrown],
                        !.status = errorResponse(thrown).status,
                        !.error = errorResponse(thrown).error]
          /\ UNCHANGED <<projectTable, users, inviteLinks, tokens, now, nextId, rest>>
     ELSE SessionPublicGet(clientID, auth)

TokenGet ==
  \E c \in ClientIDs, h \in AuthHeaders, v \in VerifierOutcomes :
    SessionPublicGetWith(c, h, v)

NextToken == Register \/ TokenGet
SpecToken == Init /\ [][NextToken]_vars

\* ------------------------------------------------------------------------
\* SpecCors: GET /user and GET /session/public behind the first middleware.
\* The handler answers (or its error is answered) inside next(); the
\* middleware then puts its cookies and headers on that response.  The
\* tenant of the path and the tenant of the request context are separate
\* inputs.
\* ------------------------------------------------------------------------
through(answer, r) == [answer EXCEPT !.req = r, !.out = middleware(r)]

GuardedRequests ==
  [method : {"GET"}, path : {"/user", "/session/public"},
   query : {[NoQueryParams EXCEPT !.client_id = c] :
              c \in {null, Some(<<"acme">>), Some(<<"beta">>), Some(<<"ghost">>)}},
   form : {NoForm},
   cookies : {[NoCookies EXCEPT !.client_id = c] : c \in {null, Some("beta")}}]

GuardedGetUser ==
  \E c \in ClientIDs, u \in UserIDs, h \in SecretHeaders, r \in GuardedRequests :
    /\ r.path = "/user"
    /\ resp' = through(getUser(c, u, h), r)
    /\ UNCHANGED <<projectTable, users, inviteLinks, tokens, now, nextId, rest>>

GuardedSessionGet ==
  \E c \in ClientIDs, auth \in AuthHeaders, r \in GuardedRequests :
    /\ r.path = "/session/public"
    /\ LET userInfo == ensureToken(getTokenFromRequest(auth), c)
       IN resp' = through(
                    IF ~userInfo.ok
                    THEN answered("GET /session/public", c, null, auth,
                                  userInfo.err, FALSE, 0)
                    ELSE sessionOk("GET /session/public", c, null, auth,
                                   userInfo.properties, JNull, FALSE,
                                   getUserPublicData(
                                     users[userInfo.properties.clientID],
                                     userInfo.properties.id)),
                    r)
    /\ UNCHANGED <<projectTable, users, inviteLinks, tokens, now, nextId, rest>>

NextCors == Register \/ GuardedGetUser \/ GuardedSessionGet
SpecCors == Init /\ [][NextCors]_vars

\* ------------------------------------------------------------------------
\* bin/: the upgrade command.  A run is the position of the flow with the
\* calls its dependencies have received: exec (command and the stderr it
\* answered), exit (code) and error (message).
\* ------------------------------------------------------------------------
Versions == {"main", "v1", "v2"}
DeployMethods == {"wrangler", "git", "undefined"}
\* What a command wrote to stderr, as the phrases the flows look for; <<>> is
\* the empty string
Stderrs == {<<>>, <<"fatal">>, <<"warning">>}

Run0(flow, options) ==
  [flow |-> flow, options |-> options, pc |-> "checkBinary",
   calls |-> <<>>, exitCodes |-> <<>>, errors |-> <<>>, writes |-> <<>>]

exec(run, cmd, stderr) ==
  [run EXCEPT !.calls = Append(@, [cmd |-> cmd, stderr |-> stderr])]
error(run, message) == [run EXCEPT !.errors = Append(@, message)]
\* exit(code); return
exitWith(run, code) ==
  [run EXCEPT !.exitCodes = Append(@, code), !.pc = "returned"]
goto(run, pc) == [run EXCEPT !.pc = pc]

\* One exec of the upgrade flow: a non-empty stderr is reported and ends the
\* run with exit(1), an empty one moves on
upgradeExec_KeepsGoing(run, cmd, stderr, message, pc) ==
  IF stderr # <<>>
  THEN goto(exitWith(error(exec(run, cmd, stderr), message), 1), pc)
  ELSE goto(exec(run, cmd, stderr), pc)
upgradeExec(run, cmd, stderr, message, pc) ==
  IF stderr # <<>>
  THEN exitWith(error(exec(run, cmd, stderr), message), 1)
  ELSE goto(exec(run, cmd, stderr), pc)

Step(run) ==
  /\ cli' = run
  /\ UNCHANGED <<projectTable, users, inviteLinks, tokens, now, nextId, resp,
                 inflight, currentProjectCache, everStored, storageTable,
                 written>>

UpgradeStart ==
  /\ cli = Idle
  /\ \E v \in Versions, d \in DeployMethods :
       Step(Run0("upgrade", [version |-> v, deploy |-> d]))

UpgradeCheckGit ==
  /\ cli.flow = "upgrade" /\ cli.pc = "checkBinary"
  /\ \E gitExists \in BOOLEAN :
       Step(IF ~gitExists
            THEN exitWith(error(cli, "Git is not installed"), 1)
            ELSE goto(cli, "pull"))

UpgradePull ==
  /\ cli.flow = "upgrade" /\ cli.pc = "pull"
  /\ \E stderr \in Stderrs :
       Step(upgradeExec(cli,
                        "git pull --rebase --no-edit origin "
                          \o cli.options.version,
                        stderr, "Error pulling from git:", "migrate"))

UpgradeMigrate ==
  /\ cli.flow = "upgrade" /\ cli.pc = "migrate"
  /\ \E stderr \in Stderrs :
       Step(upgradeExec(cli, "wrangler d1 migrations apply AUTH_DB", stderr,
                        "Error applying database schema:", "deploy"))

UpgradeDeploy ==
  /\ cli.flow = "upgrade" /\ cli.pc = "deploy"
  /\ \E stderr \in Stderrs :
       Step(CASE cli.options.deploy = "wrangler" ->
                   upgradeExec(cli, "wrangler deploy", stderr,
                               "Error deploying with wrangler:", "returned")
              [] cli.options.deploy = "git" ->
                   upgradeExec(cli, "git push cloudflare main", stderr,
                               "Error pushing to git:", "returned")
              [] OTHER -> goto(cli, "returned"))

upgradeFlow ==
  UpgradeCheckGit \/ UpgradePull \/ UpgradeMigrate \/ UpgradeDeploy

NextUpgrade == UpgradeStart \/ upgradeFlow
SpecUpgrade == Init /\ [][NextUpgrade]_vars

\* ------------------------------------------------------------------------
\* bin/: the initialization command, one action per exec with what runs
\* before it.  promptVars answers with the placeholder it was given or with
\* what the user typed.
\* ------------------------------------------------------------------------
undefined == "undefined"
Repos == {"git@host:me/issuer.git"}
InitOptions ==
  [method : {"wrangler", "git", undefined},
   repo : Repos \cup {undefined},
   jurisdiction : {"EU", undefined},
   location : {"eu-west", undefined}]
Envs == {"test", "production"}

\* options.x ?? fallback
Coalesce(x, fallback) == IF x = undefined THEN fallback ELSE x
\* String.prototype.toLowerCase on the answers of the model
toLowerCase(s) ==
  CASE s = "GIT" -> "git"
    [] s = "YES" -> "yes"
    [] OTHER -> s
includes(stderr, phrase) == \E i \in 1..Len(stderr) : stderr[i] = phrase
endsWith(stderr, phrase) == stderr # <<>> /\ stderr[Len(stderr)] = phrase

InitRun0(options, env) ==
  [flow |-> "init", options |-> options, pc |-> "checkBinary",
   calls |-> <<>>, exitCodes |-> <<>>, errors |-> <<>>, writes |-> <<>>,
   env |-> env, method |-> undefined, repo |-> undefined,
   binding |-> FALSE]
writeFile(run, path) == [run EXCEPT !.writes = Append(@, path)]
\* an exception leaves the flow: the promise of initializeFlow rejects
throw(run) == goto(run, "threw")

InitStart ==
  /\ cli = Idle
  /\ \E o \in InitOptions, env \in Envs : Step(InitRun0(o, env))

\* checkBinary("wrangler"), the method and repository prompts and
\* checkBinary("git"): everything before the first command
preflight_SkipsGit(run, wranglerExists, methodAnswer, repoAnswer, gitExists) ==
  LET m == toLowerCase(methodAnswer)
      chosen == [run EXCEPT !.method = m,
                            !.repo = IF m = "git" THEN repoAnswer
                                     ELSE undefined]
  IN  IF ~wranglerExists
      THEN exitWith(error(run, "Wrangler CLI is not installed"), 1)
      ELSE IF m \notin {"git", "wrangler"}
      THEN throw(run)
      ELSE goto(chosen, "configure")
preflight(run, wranglerExists, methodAnswer, repoAnswer, gitExists) ==
  LET m == toLowerCase(methodAnswer)
      chosen == [run EXCEPT !.method = m,
                            !.repo = IF m = "git" THEN repoAnswer
                                     ELSE undefined]
  IN  IF ~wranglerExists
      THEN exitWith(error(run, "Wrangler CLI is not installed"), 1)
      ELSE IF m \notin {"git", "wrangler"}
      THEN throw(run)
      ELSE IF m = "git"
      THEN IF ~gitExists
           THEN exitWith(error(chosen, "Git is not installed"), 1)
           ELSE IF chosen.repo = ""
           THEN exitWith(error(chosen, "Git repository URL is required"), 1)
           ELSE goto(chosen, "gitInit")
      ELSE goto(chosen, "configure")

InitPreflight ==
  /\ cli.flow = "init" /\ cli.pc = "checkBinary"
  /\ \E wranglerExists \in BOOLEAN, gitExists \in BOOLEAN,
        methodAnswer \in {Coalesce(cli.options.method, "wrangler"),
                          "GIT", "svn"},
        repoAnswer \in {Coalesce(cli.options.repo,
                                 "http://example.com/repo.git"), ""} :
       Step(preflight(cli, wranglerExists, methodAnswer, repoAnswer,
                      gitExists))

\* An exec whose non-empty stderr is reported and ends the run with exit(1)
initExec_KeepsGoing(run, cmd, stderr, message, pc) ==
  IF stderr # <<>>
  THEN goto(exitWith(error(exec(run, cmd, stderr), message), 1), pc)
  ELSE goto(exec(run, cmd, stderr), pc)
initExec(run, cmd, stderr, message, pc) ==
  IF stderr # <<>>
  THEN exitWith(error(exec(run, cmd, stderr), message), 1)
  ELSE goto(exec(run, cmd, stderr), pc)

InitGitInit ==
  /\ cli.flow = "init" /\ cli.pc = "gitInit"
  /\ \E stderr \in {<<>>, <<"fatal">>} :
       Step(initExec(cli, "git init", stderr,
                     "Error initializing git repository:", "remoteAdd"))

InitGitRemoteAdd ==
  /\ cli.flow = "init" /\ cli.pc = "remoteAdd"
  /\ \E stderr \in {<<>>, <<"fatal">>,
                    <<"error: ", "remote cloudflare already exists", ".">>} :
       LET ran == exec(cli, "git remote add cloudflare " \o cli.repo, stderr)
       IN  Step(goto(IF /\ stderr # <<>>
                        /\ ~includes(stderr,
                                     "remote cloudflare already exists")
                     THEN error(ran, "Error initializing git repository:")
                     ELSE ran,
                     "push"))

InitGitPush ==
  /\ cli.flow = "init" /\ cli.pc = "push"
  /\ \E stderr \in {<<>>, <<"fatal">>, <<"Everything up-to-date">>,
                    <<"To host", "main -> main\n">>} :
       LET ran == exec(cli, "git push --set-upstream cloudflare main", stderr)
       IN  Step(goto(IF /\ stderr # <<>>
                        /\ ~includes(stderr, "Everything up-to-date")
                        /\ ~endsWith(stderr, "main -> main\n")
                     THEN error(ran,
                                "Error setting upstream and pushing to git:")
                     ELSE ran,
                     "configure"))

\* wrangler.json is generated from the example, then the database is created
createCommand(db) ==
  "wrangler d1 create " \o db.name
    \o " --binding AUTH_DB --update-config true --jurisdiction "
    \o db.jurisdiction \o " --location " \o db.location

InitCreateDb ==
  /\ cli.flow = "init" /\ cli.pc = "configure"
  /\ \E name \in {"openauthster", "mydb"},
        stderr \in {<<>>, <<"fatal">>,
                    <<"database with that name already exists">>},
        answer \in {"no", "YES", "y"} :
       LET db == [name |-> name,
                  jurisdiction |-> Coalesce(cli.options.jurisdiction, "US"),
                  location |-> Coalesce(cli.options.location, "us-east")]
           ran == exec(writeFile(cli, "./wrangler.json"),
                       createCommand(db), stderr)
           \* wrangler adds the binding to wrangler.json when it created
           \* the database
           made == [ran EXCEPT !.binding = (stderr = <<>>)]
       IN  Step(IF stderr # <<>>
                THEN LET told == error(made, "Error creating D1 database:")
                     IN  IF includes(stderr,
                               "database with that name already exists")
                         THEN IF toLowerCase(answer)
                                   \notin {"yes", "y", "true"}
                              THEN exitWith(told, 0)
                              ELSE goto(told, "migrate")
                         ELSE exitWith(told, 1)
                ELSE goto(made, "migrate"))

\* wrangler.json is read back, the migrations directory set on the AUTH_DB
\* binding (a mock one under test) and the migrations are applied
InitMigrate ==
  /\ cli.flow = "init" /\ cli.pc = "migrate"
  /\ \E stderr \in {<<>>, <<"fatal">>} :
       Step(IF cli.env # "test" /\ ~cli.binding
            THEN throw(cli)
            ELSE initExec(writeFile(cli, "./wrangler.json"),
                          "wrangler d1 migrations apply AUTH_DB", stderr,
                          "Error applying database schema:", "deploy"))

InitDeploy ==
  /\ cli.flow = "init" /\ cli.pc = "deploy"
  /\ \E stderr \in {<<>>, <<"fatal">>} :
       Step(IF cli.method = "wrangler"
            THEN initExec(cli, "wrangler deploy --dry-run", stderr,
                          "Error deploying with wrangler:", "returned")
            ELSE initExec(cli,
                          "git remote set-url --push cloudflare " \o cli.repo,
                          stderr, "Error setting git remote URL:", "commit"))

InitCommit ==
  /\ cli.flow = "init" /\ cli.pc = "commit"
  /\ \E stderr \in {<<>>, <<"fatal">>} :
       Step(initExec(cli,
                     "git add . && git commit -m \"Initial commit\" && git push cloudflare main",
                     stderr, "Error during initial commit and push:",
                     "returned"))

initializeFlow ==
  \/ InitPreflight \/ InitGitInit \/ InitGitRemoteAdd \/ InitGitPush
  \/ InitCreateDb \/ InitMigrate \/ InitDeploy \/ InitCommit

NextInit == InitStart \/ initializeFlow
SpecInit == Init /\ [][NextInit]_vars

\* ------------------------------------------------------------------------
\* Session updates one statement at a time.  updateUserPublicData and
\* updateUserPrivateData await a SELECT and then an UPDATE; between the two
\* the isolate and D1 serve other requests.
\* ------------------------------------------------------------------------
Columns == {"public", "private"}

\* const currentData = await getUser...Data(...)
currentDataOf(rows, column, userID) ==
  IF column = "public" THEN getUserPublicData(rows, userID)
  ELSE getUserPrivateData(rows, userID)

\* skipMerge ? newData : { ...current, ...newData }
mergedData_FromStored(rows, call) ==
  IF call.skipMerge THEN call.newData
  ELSE JObj(spreadMerge(
              spread(orEmpty(currentDataOf(rows, call.column,
                                           call.userID).data[call.column])),
              spread(call.newData)))
mergedData(rows, call) ==
  IF call.skipMerge THEN call.newData
  ELSE JObj(spreadMerge(
              spread(orEmpty(call.currentData.data[call.column])),
              spread(call.newData)))

\* update(usersTable).set({session_x: JSON.stringify(mergedData)})
\*   .where(eq(usersTable.id, userID)).returning(...)
setSession_PatchOnly(rows, call) ==
  [i \in 1..Len(rows) |->
     IF rows[i].id # call.userID THEN rows[i]
     ELSE IF call.column = "public"
     THEN [rows[i] EXCEPT !.session_public = stringify(call.newData)]
     ELSE [rows[i] EXCEPT !.session_private = stringify(call.newData)]]
setSession(rows, call) ==
  [i \in 1..Len(rows) |->
     IF rows[i].id # call.userID THEN rows[i]
     ELSE IF call.column = "public"
     THEN [rows[i] EXCEPT
             !.session_public = stringify(mergedData(rows, call))]
     ELSE [rows[i] EXCEPT
             !.session_private = stringify(mergedData(rows, call))]]

\* the document of a column that a row holds
documentOf(rows, column, userID) ==
  LET el == IndexOfId(rows, userID)
  IN  IF el = {} THEN JNull
      ELSE LET row == rows[CHOOSE i \in el : TRUE]
           IN  parseOrNull(IF column = "public" THEN row.session_public
                           ELSE row.session_private)

\* The read of an update: "User not found" ends the call, a row is kept as
\* the pre-image of the call
BeginUpdate(p, column) ==
  /\ inflight[p] = NoCall
  /\ \E userID \in UserIDs, newData \in Patches, skipMerge \in BOOLEAN :
       LET read == currentDataOf(users["beta"], column, userID)
           \* what the call uses of it later: currentData.data?.[column]
           currentData == [success |-> read.success,
                           data |-> [c \in {column} |-> read.data[c]]]
           call == [kind |-> "update", column |-> column, userID |-> userID,
                    newData |-> newData, skipMerge |-> skipMerge,
                    currentData |-> currentData]
       IN  IF currentData.success
           THEN /\ inflight' = [inflight EXCEPT ![p] = call]
                /\ UNCHANGED resp
           ELSE /\ resp' = [Resp0 EXCEPT !.op = "update",
                              !.clientID = Some("beta"), !.userID = userID,
                              !.patch = newData, !.skipMerge = skipMerge,
                              !.error = "User not found", !.rowRead = TRUE,
                              !.req = call]
                /\ UNCHANGED inflight
  /\ UNCHANGED <<projectTable, users, inviteLinks, tokens, now, nextId, cli,
                 currentProjectCache, everStored, storageTable,
                 written>>

\* The UPDATE of an update, with the answer built from the returned row
FinishUpdate(p) ==
  /\ inflight[p].kind = "update"
  /\ LET call == inflight[p]
         rows == users["beta"]
         el == setSession(rows, call)
         found == IndexOfId(rows, call.userID) # {}
     IN  /\ users' = [users EXCEPT !["beta"] = el]
         /\ resp' = [Resp0 EXCEPT !.op = "update",
                       !.clientID = Some("beta"), !.userID = call.userID,
                       !.patch = call.newData, !.skipMerge = call.skipMerge,
                       !.success = found,
                       !.error = IF found THEN "" ELSE "User not found",
                       !.rowRead = TRUE, !.rowWritten = found,
                       !.req = call,
                       !.out = [before |-> documentOf(rows, call.column,
                                                      call.userID),
                                after |-> documentOf(el, call.column,
                                                     call.userID)]]
  /\ inflight' = [inflight EXCEPT ![p] = NoCall]
  /\ UNCHANGED <<projectTable, inviteLinks, tokens, now, nextId, cli,
                 currentProjectCache, everStored, storageTable,
                 written>>

BeginPublic == \E p \in Callers : BeginUpdate(p, "public")
BeginPrivate == \E p \in Callers : BeginUpdate(p, "private")
Finish == \E p \in Callers : FinishUpdate(p)
ReadPublic == \E u \in UserIDs : GetPublic("beta", u)
ReadPrivate == \E u \in UserIDs : GetPrivate("beta", u)

\* Two callers updating and reading the public session documents of beta's
\* users
NextRace == RegisterOne \/ BeginPublic \/ Finish \/ ReadPublic
SpecRace == Init /\ [][NextRace]_vars

\* The same on the private documents
NextRacePrivate == RegisterOne \/ BeginPrivate \/ Finish \/ ReadPrivate
SpecRacePrivate == Init /\ [][NextRacePrivate]_vars

\* ------------------------------------------------------------------------
\* getProjectById with the Map of the isolate, one await at a time.  What
\* runs before the await of the SELECT either answers (the public tenant, a
\* cached project) or reads the row; what runs after it answers null or
\* caches the project and answers it.
\* ------------------------------------------------------------------------
Resolution(clientId, project, select, has, set) ==
  [Resp0 EXCEPT !.op = "getProjectById",
     !.req = [clientId |-> clientId],
     !.out = [project |-> project, select |-> select, has |-> has,
              set |-> set]]

\* the statements before the await; answered is FALSE when the SELECT is
\* awaited
beforeSelect_CacheFirst(clientId, cache) ==
  IF clientId \in DOMAIN cache
  THEN [answered |-> TRUE, project |-> Some(cache[clientId]), has |-> TRUE]
  ELSE IF clientId = PUBLIC_CLIENT_ID
  THEN [answered |-> TRUE, project |-> Some(PublicProject), has |-> TRUE]
  ELSE [answered |-> FALSE, project |-> null, has |-> TRUE]
beforeSelect(clientId, cache) ==
  IF clientId = PUBLIC_CLIENT_ID
  THEN [answered |-> TRUE, project |-> Some(PublicProject), has |-> FALSE]
  ELSE IF clientId \in DOMAIN cache
  THEN [answered |-> TRUE, project |-> Some(cache[clientId]), has |-> TRUE]
  ELSE [answered |-> FALSE, project |-> null, has |-> TRUE]

\* select().from(projectTable).where(eq(projectTable.clientID, clientId)).get()
selectProject(table, clientId) ==
  IF clientId \in DOMAIN table THEN Some(table[clientId]) ELSE null

\* currentProjectCache.set(clientId, project) when a row was read
cacheSet_AlsoNull(cache, clientId, projectData) ==
  [c \in DOMAIN cache \cup {clientId} |->
     IF c = clientId
     THEN (IF projectData = null THEN JNull ELSE projectData.v)
     ELSE cache[c]]
cacheSet(cache, clientId, projectData) ==
  IF projectData = null THEN cache
  ELSE [c \in DOMAIN cache \cup {clientId} |->
          IF c = clientId THEN projectData.v ELSE cache[c]]

ResolveIDs == ClientIDs \cup {PUBLIC_CLIENT_ID}

GetProjectBegin(p, clientId) ==
  /\ inflight[p] = NoCall
  /\ LET b == beforeSelect(clientId, currentProjectCache)
     IN  IF b.answered
         THEN /\ resp' = Resolution(clientId, b.project, FALSE, b.has, FALSE)
              /\ UNCHANGED inflight
         ELSE /\ inflight' =
                   [inflight EXCEPT ![p] =
                      [kind |-> "lookup", clientId |-> clientId,
                       projectData |-> selectProject(projectTable, clientId)]]
              /\ UNCHANGED resp
  /\ UNCHANGED <<projectTable, users, inviteLinks, tokens, now, nextId, cli,
                 currentProjectCache, everStored, storageTable,
                 written>>

GetProjectFinish(p) ==
  /\ inflight[p].kind = "lookup"
  /\ LET call == inflight[p]
     IN  /\ currentProjectCache' =
              cacheSet(currentProjectCache, call.clientId, call.projectData)
         /\ resp' = Resolution(call.clientId, call.projectData, TRUE, TRUE,
                               call.projectData # null)
  /\ inflight' = [inflight EXCEPT ![p] = NoCall]
  /\ UNCHANGED <<projectTable, users, inviteLinks, tokens, now, nextId, cli,
                 everStored, storageTable,
                 written>>

\* The management plane writes the project table: it rotates the secret of
\* beta and creates tenants, one of them under the reserved id
rotate(secret) == IF secret = S1 THEN S2 ELSE S1
EditProject ==
  /\ \E c \in {"beta"} :
       projectTable' =
         [projectTable EXCEPT ![c].secret = rotate(projectTable[c].secret)]
  /\ everStored' =
       everStored \cup {projectTable'[c] : c \in DOMAIN projectTable'}
  /\ UNCHANGED <<users, inviteLinks, tokens, now, nextId, resp, cli, inflight,
                 currentProjectCache, storageTable, written>>
CreateProject ==
  /\ \E c \in {"ghost", PUBLIC_CLIENT_ID} :
       /\ c \notin DOMAIN projectTable
       /\ projectTable' =
            [d \in DOMAIN projectTable \cup {c} |->
               IF d = c
               THEN [clientID |-> c, secret |-> S1, registerOnInvite |-> FALSE,
                     originURL |-> "https://" \o c \o ".example"]
               ELSE projectTable[d]]
  /\ everStored' =
       everStored \cup {projectTable'[c] : c \in DOMAIN projectTable'}
  /\ UNCHANGED <<users, inviteLinks, tokens, now, nextId, resp, cli, inflight,
                 currentProjectCache, storageTable, written>>

BeginResolve == \E p \in Callers, c \in ResolveIDs : GetProjectBegin(p, c)
FinishResolve == \E p \in Callers : GetProjectFinish(p)

NextCache == BeginResolve \/ FinishResolve \/ EditProject \/ CreateProject
SpecCache == Init /\ [][NextCache]_vars

\* ------------------------------------------------------------------------
\* The provider factory
\* ------------------------------------------------------------------------
\* provider types of the model; "saml" is a tag that providerConfigMap lacks
ProviderTypes == {"password", "oidc", "appleoidc", "apple", "saml"}
ProviderConfigs == [type : ProviderTypes, enabled : BOOLEAN]
ProvidersData ==
  UNION {[1..n -> ProviderConfigs] : n \in 0..MaxProviders}

\* providerConfigMap[type]
builderOf(type) ==
  CASE type = "password" -> Some("passwordConfigBuilder")
    [] type = "oidc" -> Some("oidcConfigBuilder")
    [] type \in {"appleoauth", "appleoidc", "apple"} -> Some("appleBuilder")
    [] OTHER -> null
\* providerConfigMap[providerConfig.type].provider({..., providerConfig})
provider(providerConfig) ==
  LET builder == builderOf(providerConfig.type)
  IN  IF builder = null
      THEN [ok |-> FALSE, error |-> "TypeError"]
      ELSE IF builder.v = "appleBuilder"
              /\ providerConfig.type \notin {"appleoauth", "appleoidc"}
      THEN [ok |-> FALSE,
            error |-> "Invalid provider config type for Apple provider"]
      ELSE [ok |-> TRUE,
            handler |-> [builder |-> builder.v, config |-> providerConfig]]

\* project.providers_data.filter((p) => p.enabled)
enabledOf_All(providers_data) == providers_data
enabledOf(providers_data) == SelectSeq(providers_data, LAMBDA p : p.enabled)

\* Promise.all(...map(...)) and the reduce over the one-key objects: a
\* rejected constructor rejects the whole, a later configuration of a type
\* replaces an earlier one
generateProvidersFromConfig(project) ==
  LET configs == enabledOf(project.providers_data)
      built == [i \in 1..Len(configs) |-> provider(configs[i])]
      last(t) == CHOOSE i \in 1..Len(configs) :
                   /\ configs[i].type = t
                   /\ \A j \in (i+1)..Len(configs) : configs[j].type # t
  IN  IF \E i \in 1..Len(configs) : ~built[i].ok
      THEN [raised |-> TRUE, providers |-> EmptyObj]
      ELSE [raised |-> FALSE,
            providers |-> [t \in {configs[i].type : i \in 1..Len(configs)} |->
                             built[last(t)].handler]]

GenerateProviders ==
  /\ \E pd \in ProvidersData :
       LET project == [clientID |-> "beta", providers_data |-> pd]
       IN  resp' = [Resp0 EXCEPT !.op = "generateProvidersFromConfig",
                      !.clientID = Some("beta"),
                      !.req = project,
                      !.out = generateProvidersFromConfig(project)]
  /\ UNCHANGED <<projectTable, users, inviteLinks, tokens, now, nextId, rest>>

NextProviders == GenerateProviders
SpecProviders == Init /\ [][NextProviders]_vars

\* ------------------------------------------------------------------------
\* Identity extraction of the OIDC-family and userinfo providers.  A payload
\* is the id token's claims or the userinfo answer, with the claims it has.
\* ------------------------------------------------------------------------
SubFamily ==
  {"oidc", "apple", "slack", "cognito", "keycloak", "google", "jumpcloud",
   "yahoo"}
Payloads ==
  {[k \in ks |-> IF k = "sub" THEN s ELSE IF k = "email" THEN e ELSE "n"] :
     ks \in SUBSET {"sub", "email", "name"}, s \in {"i1", "i2"},
     e \in {"e1", "e2"}}

\* info.x: undefined when the payload has no such claim
claim(info, k) == IF k \in DOMAIN info THEN Some(info[k]) ELSE null
extracted(identifier, info) ==
  [ok |-> TRUE, identifier |-> identifier, data |-> info]
extractionError == [ok |-> FALSE, identifier |-> null, data |-> EmptyObj]

\* appleBuilder.parser, both flows: identifier: payload.sub / data.id.sub!
\* googleBuilder, jumpcloudBuilder, yahooBuilder: identifier: info.sub
subParser(info) == extracted(claim(info, "sub"), info)
\* slackBuilder, cognitoBuilder, keycloakBuilder:
\* identifier: info.sub || info.email!
subOrEmailParser(info) ==
  extracted(Or(claim(info, "sub"), claim(info, "email")), info)
\* oidcConfigBuilder.parser
oidcSubParser(info) ==
  LET r == oidcParser([id |-> info])
  IN  IF r.ok THEN extracted(Some(r.identifier), r.data) ELSE extractionError

parserOf(type, info) ==
  CASE type = "oidc" -> oidcSubParser(info)
    [] type \in {"slack", "cognito", "keycloak"} -> subOrEmailParser(info)
    [] OTHER -> subParser(info)

Parse ==
  /\ \E type \in SubFamily, info \in Payloads :
       resp' = [Resp0 EXCEPT !.op = "parser",
                  !.req = [provider |-> type, info |-> info],
                  !.out = parserOf(type, info)]
  /\ UNCHANGED <<projectTable, users, inviteLinks, tokens, now, nextId, rest>>

NextParsers == Parse
SpecParsers == Init /\ [][NextParsers]_vars

\* ------------------------------------------------------------------------
\* SpecExtract: logins whose identity extraction can fail, next to logins
\* whose extraction succeeds: Slack with a live or a revoked access token,
\* OIDC with or without the sub claim.
\* ------------------------------------------------------------------------
SlackValues ==
  {[provider |-> "slack", email |-> "", id |-> EmptyObj,
    tokenset |-> [access |-> t]] : t \in AccessTokens}
OidcValuesNoSub == {[provider |-> "oidc", email |-> "", id |-> [name |-> "x"]]}
ExtractValues == SlackValues \cup OidcValuesNoSub \cup OidcValues

LoginExtract ==
  \E c \in Tenants, inv \in OptInviteIDs, v \in ExtractValues :
    AuthSuccess(Some(c), inv, v, FALSE)

NextExtract == LoginExtract \/ Tick
SpecExtract == Init /\ [][NextExtract]_vars

\* ------------------------------------------------------------------------
\* The generic OAuth2 provider: the identifier is found by walking the
\* tenant's idPath into the userinfo answer.  A userinfo answer is any JSON
\* value; an idPath is a string, written as its parts with "." as a part of
\* its own so that split(".") has something to do.
\* ------------------------------------------------------------------------
JStr(s) == [t |-> "str", s |-> s]
JNum(n) == [t |-> "num", n |-> n]
\* a function a JSON object inherits from Object.prototype
JFn == [t |-> "fn"]

UserInfos ==
  {JObj([id |-> JStr("u1")]),
   JObj([id |-> JNum(0)]),
   JObj([id |-> JNull]),
   JObj([user |-> JObj([id |-> JStr("u1"), name |-> JStr("bob")])]),
   JObj([user |-> JObj([id |-> JObj([value |-> JStr("u1")])])]),
   JObj([user |-> JStr("bob")]),
   JObj([user |-> JStr("")]),
   JObj([user |-> JNull]),
   JObj([user |-> JNum(7)]),
   JObj(EmptyObj),
   JStr("bob"),
   JNull}
IdPaths ==
  {<<"id">>, <<"user">>, <<"user", ".", "id">>, <<"user", ".", "name">>,
   <<"id", ".", "value">>, <<"user", ".", "id", ".", "value">>,
   <<"constructor">>, <<"user", ".", "toString">>, <<>>, <<"user", ".">>}

\* the properties every object has through its prototype chain
Inherited == {"constructor", "toString"}

\* acc && ...: null, "", 0 are falsy
truthy(v) ==
  CASE v.t = "null" -> FALSE
    [] v.t = "str" -> v.s # ""
    [] v.t = "num" -> v.n # 0
    [] OTHER -> TRUE
\* part in acc, for an acc that is an object or a function
in(part, acc) ==
  \/ acc.t = "obj" /\ part \in DOMAIN acc.o
  \/ part \in Inherited
\* acc[part]
member(acc, part) ==
  IF acc.t = "obj" /\ part \in DOMAIN acc.o THEN acc.o[part] ELSE JFn

\* idPath.split(".").reduce((acc, part) => ..., userInfoResponse): the `in`
\* operator raises a TypeError when its right operand is a primitive.
RECURSIVE reduce(_, _, _)
reduce(parts, acc, identifier) ==
  IF parts = <<>> THEN [raised |-> "", identifier |-> identifier]
  ELSE LET part == Head(parts)
       IN  IF ~truthy(acc) THEN [raised |-> "Invalid idPath", identifier |-> null]
           ELSE IF acc.t \in {"str", "num"}
           THEN [raised |-> "TypeError", identifier |-> null]
           ELSE IF in(part, acc)
           THEN reduce(Tail(parts), member(acc, part), Some(member(acc, part)))
           ELSE [raised |-> "Invalid idPath", identifier |-> null]

\* idPath.split(".")
splitIdPath(idPath) ==
  LET pieces == splitBy(idPath, ".")
  IN  [k \in 1..Len(pieces) |-> text(pieces[k])]

\* oauth2Builder.parser: fetch the userinfo URL, throw unless res.ok, walk
oauth2Parser(res, idPath) ==
  IF ~res.ok THEN [raised |-> "Error", identifier |-> null, data |-> JNull]
  ELSE LET walked == reduce(splitIdPath(idPath), res.json, null)
       IN  [raised |-> walked.raised, identifier |-> walked.identifier,
            data |-> IF walked.raised = "" THEN res.json ELSE JNull]

ParseOAuth2 ==
  /\ \E ok \in BOOLEAN, json \in UserInfos, idPath \in IdPaths :
       resp' = [Resp0 EXCEPT !.op = "oauth2.parser",
                  !.req = [res |-> [ok |-> ok, json |-> json], idPath |-> idPath],
                  !.out = oauth2Parser([ok |-> ok, json |-> json], idPath)]
  /\ UNCHANGED <<projectTable, users, inviteLinks, tokens, now, nextId, rest>>

NextIdPath == ParseOAuth2
SpecIdPath == Init /\ [][NextIdPath]_vars

\* ------------------------------------------------------------------------
\* Code delivery.  The channels (Resend, Twilio, the deployment's own
\* functions) and the webhook are outside the Worker: each call to one of
\* them either reports success or fails, as the request's input says.
\* ------------------------------------------------------------------------
CodeModes == {"email", "phone"}
EmailStrategies == {"undefined", "resend", "custom"}
PhoneStrategies == {"undefined", "twilio", "custom"}
GlobalConfigs == [email : EmailStrategies, phone : PhoneStrategies]
Claims == [email : {null, Some("i1")}, phone : {null, Some("+1")}]

\* what a sendCode call did: the channels it called, and whether it threw
Sent(calls, raised) == [calls |-> calls, raised |-> raised]

\* sendCodeWithEmail: only the "resend" case of the switch sends anything;
\* every other strategy ends in the default case, which logs
sendCodeWithEmail(project, globalConfig, channelOk) ==
  IF project.codeMode # "email" THEN Sent(<<>>, FALSE)
  ELSE IF globalConfig.email = "resend" THEN Sent(<<"resend">>, ~channelOk)
  ELSE Sent(<<>>, FALSE)

\* sendCodeWithSMS: sendTwilioSMS throws unless res.ok, sendSMSFunction is
\* awaited, the default case logs
sendCodeWithSMS(project, globalConfig, channelOk) ==
  IF project.codeMode # "phone" THEN Sent(<<>>, FALSE)
  ELSE IF globalConfig.phone = "twilio" THEN Sent(<<"twilio">>, ~channelOk)
  ELSE IF globalConfig.phone = "custom" THEN Sent(<<"sendSMSFunction">>, ~channelOk)
  ELSE Sent(<<>>, FALSE)

\* PasswordUI({ sendCode }): phone mode warns and sends nothing
passwordSendCode(project, globalConfig, channelOk) ==
  IF project.codeMode = "email"
  THEN sendCodeWithEmail(project, globalConfig, channelOk)
  ELSE Sent(<<>>, FALSE)

\* CodeUI({ sendCode }): the code_sent webhook, then the switch on codeMode
codeSendCode(project, globalConfig, contact, webhookOk, channelOk) ==
  IF ~webhookOk THEN Sent(<<>>, TRUE)
  ELSE IF project.codeMode = "email"
  THEN IF contact.email = null THEN Sent(<<>>, TRUE)
       ELSE sendCodeWithEmail(project, globalConfig, channelOk)
  ELSE IF project.codeMode = "phone"
  THEN IF contact.phone = null THEN Sent(<<>>, TRUE)
       ELSE sendCodeWithSMS(project, globalConfig, channelOk)
  ELSE Sent(<<>>, TRUE)

SendCode ==
  /\ \E kind \in {"password", "code"}, codeMode \in CodeModes,
        globalConfig \in GlobalConfigs, contact \in Claims,
        webhookOk \in BOOLEAN, channelOk \in BOOLEAN :
       LET project == [clientID |-> "beta", codeMode |-> codeMode]
       IN  /\ kind = "password" => contact.email # null /\ webhookOk
           /\ resp' = [Resp0 EXCEPT !.op = "sendCode",
                         !.clientID = Some("beta"),
                         !.req = [provider |-> kind, project |-> project,
                                  globalConfig |-> globalConfig,
                                  claim |-> contact, channelOk |-> channelOk],
                         !.out = IF kind = "password"
                                 THEN passwordSendCode(project, globalConfig,
                                                       channelOk)
                                 ELSE codeSendCode(project, globalConfig, contact,
                                                   webhookOk, channelOk)]
  /\ UNCHANGED <<projectTable, users, inviteLinks, tokens, now, nextId, rest>>

NextSendCode == SendCode
SpecSendCode == Init /\ [][NextSendCode]_vars

\* ------------------------------------------------------------------------
\* SpecInviteRace: two first logins of the invite-only tenant in the isolate
\* at a time, both presenting the invite link inv1.  getOrCreateUser is split
\* at its awaits: the userExists SELECT, the SELECT of the invite link, the
\* upsert, the DELETE of the invite link.
\* ------------------------------------------------------------------------
RaceTenant == "acme"
RaceInvite == Some("inv1")

Call(p, call) == inflight' = [inflight EXCEPT ![p] = call]
LoginAt(p, pc) == inflight[p].kind = "login" /\ inflight[p].pc = pc

\* the parser, then `project.registerOnInvite && !(await userExists(...))`
LoginBegin(p) ==
  /\ inflight[p] = NoCall
  /\ \E value \in OidcValues :
       LET project == projectTable[RaceTenant]
           userData == providerConfigMap(value)
           gated == project.registerOnInvite
                    /\ ~userExists(users[RaceTenant], userData.identifier)
       IN  Call(p, [kind |-> "login", pc |-> IF gated THEN "validate" ELSE "upsert",
                    value |-> value, userData |-> userData,
                    inviteID |-> RaceInvite])
  /\ UNCHANGED <<projectTable, users, inviteLinks, tokens, now, nextId, resp,
                 cli, currentProjectCache, everStored, storageTable,
                 written>>

\* await ensureInviteLinkIsValid(params.inviteID, env).catch(...)
LoginValidate(p) ==
  /\ LoginAt(p, "validate")
  /\ LET call == inflight[p]
         v == ensureInviteLinkIsValid(inviteLinks, call.inviteID.v, now)
     IN  /\ inviteLinks' = v.links
         /\ IF v.ok
            THEN /\ Call(p, [call EXCEPT !.pc = "upsert"])
                 /\ resp' = resp
            ELSE /\ Call(p, NoCall)
                 /\ resp' = [Resp0 EXCEPT !.op = "getOrCreateUser",
                               !.clientID = Some(RaceTenant),
                               !.inviteID = call.inviteID,
                               !.value = call.value, !.status = 401,
                               !.error = v.error, !.cookieCleared = TRUE]
  /\ UNCHANGED <<projectTable, users, tokens, now, nextId, cli,
                 currentProjectCache, everStored, storageTable,
                 written>>

\* INSERT ... ON CONFLICT (identifier) DO UPDATE ... RETURNING id
LoginUpsert(p) ==
  /\ LoginAt(p, "upsert")
  /\ LET call == inflight[p]
         dataToStore == ("provider" :> call.value.provider) @@ call.userData.data
         result == upsertUser(users[RaceTenant], nextId,
                              call.userData.identifier, dataToStore)
     IN  /\ result.inserted => nextId <= MaxIds
         /\ users' = [users EXCEPT ![RaceTenant] = result.rows]
         /\ nextId' = IF result.inserted THEN nextId + 1 ELSE nextId
         /\ Call(p, [kind |-> "login", pc |-> "consume", value |-> call.value,
                      userData |-> call.userData, inviteID |-> call.inviteID,
                      id |-> result.id, inserted |-> result.inserted])
  /\ UNCHANGED <<projectTable, inviteLinks, tokens, now, resp, cli,
                 currentProjectCache, everStored, storageTable,
                 written>>

\* await removeInviteLinkById(params.inviteID!, env), then the subject
LoginConsume(p) ==
  /\ LoginAt(p, "consume")
  /\ LET call == inflight[p]
     IN  /\ inviteLinks' = removeInviteLinkById(inviteLinks, call.inviteID)
         /\ tokens' = tokens \cup {[id |-> call.id, clientID |-> RaceTenant]}
         /\ resp' = [Resp0 EXCEPT !.op = "getOrCreateUser",
                       !.clientID = Some(RaceTenant),
                       !.inviteID = call.inviteID, !.value = call.value,
                       !.status = 200, !.success = TRUE, !.userID = call.id,
                       !.rowWritten = TRUE, !.cookieCleared = TRUE,
                       !.inserted = call.inserted]
         /\ Call(p, NoCall)
  /\ UNCHANGED <<projectTable, users, now, nextId, cli, currentProjectCache,
                 everStored, storageTable,
                 written>>

LoginCall ==
  \E p \in Callers :
    LoginBegin(p) \/ LoginValidate(p) \/ LoginUpsert(p) \/ LoginConsume(p)

NextInviteRace == LoginCall \/ Tick
SpecInviteRace == Init /\ [][NextInviteRace]_vars

\* ------------------------------------------------------------------------
\* SpecIsolation: the session endpoints when both tenants have a user and a
\* signed token, each token presented on the path of either tenant.
\* ------------------------------------------------------------------------
RegisterEither ==
  \E c \in Tenants : AuthSuccess(Some(c), Some("inv1"), SomeValue, FALSE)

\* the credentials of either tenant, on the path of either tenant
IsolationAuth == {Bearer(Signed(s)) : s \in tokens}
IsolationSecrets == {Some(S1), Some(S2)}

CrossPublic ==
  \E c \in Tenants, a \in IsolationAuth :
    \/ SessionPublicGet(c, a)
    \/ SessionPublicPatch(c, a, JObj([a |-> 1]))
    \/ SessionPublicDelete(c, a)
CrossPrivate ==
  \E c \in Tenants, h \in IsolationSecrets, a \in IsolationAuth :
    \/ SessionPrivateGet(c, h, a)
    \/ SessionPrivatePatch(c, h, a, JObj([a |-> 1]))
    \/ SessionPrivateDelete(c, h, a)

NextIsolation == RegisterEither \/ CrossPublic \/ CrossPrivate
SpecIsolation == Init /\ [][NextIsolation]_vars

\* ------------------------------------------------------------------------
\* The handlers of the RequestManager dispatcher.  A manager is the response
\* it holds, the responses that were handed to setResponse, in order, and
\* the handlers that were given the request: the utility switch (when it
\* answers), UserEndpoints, the issuer.
\* ------------------------------------------------------------------------
Manager0 == [response |-> null, offered |-> <<>>, ran |-> <<>>]
Response(status, body) == [status |-> status, body |-> body]

\* RequestManager.setResponse: if (this.response) return this
setResponse(manager, response) ==
  [manager EXCEPT !.response = IF @ # null THEN @ ELSE Some(response),
                  !.offered = Append(@, response)]
handledBy(manager, handler) == [manager EXCEPT !.ran = Append(@, handler)]

\* String.prototype.startsWith over the paths of the model
startsWith(pathname, prefix) ==
  \E tail \in {"", "/me", "s", "/register"} : pathname = prefix \o tail

\* RequestManager.UtilityResponse: the cases "/health" and "/version" have
\* no break and fall through to the next case
UtilityResponse(r) ==
  LET health == IF r.path = "/health"
                THEN setResponse(Manager0, Response(200, "OK"))
                ELSE Manager0
      version == IF r.path \in {"/health", "/version"}
                 THEN setResponse(health, Response(200, "version"))
                 ELSE health
      corsPreflight == IF r.path \in {"/health", "/version", "/user-endpoint"}
                      /\ r.method = "OPTIONS"
                   THEN setResponse(version, Response(204, ""))
                   ELSE version
  IN  IF corsPreflight.response # null THEN handledBy(corsPreflight, "utility")
      ELSE corsPreflight

\* RequestManager.handleUserEndpoints
handleUserEndpoints(manager, r) ==
  IF startsWith(r.path, "/user-endpoint")
  THEN setResponse(handledBy(manager, "UserEndpoints"),
                   Response(200, "user endpoint response"))
  ELSE manager

\* index.ts _fetch as a chain of handlers: what the manager holds at the end,
\* the thrown that reached the catch block, and the response that is returned
fetchHandlers(r, setup, userEndpoints) ==
  LET utility == UtilityResponse(r)
      params == requestToParamsRM(r)
      client_id == params.clientID
      project == IF Truthy(client_id) THEN getProjectById(client_id.v) ELSE null
      gate == handleWebUIRegister(params, r)
      early ==
        IF ~Truthy(client_id) THEN RequestError("Missing client_id", 400)
        ELSE IF project = null
        THEN RequestError("Invalid client_id or project not found", 400)
        ELSE gate
      asked == IF startsWith(r.path, "/user-endpoint") /\ userEndpoints = "throws"
               THEN handledBy(utility, "UserEndpoints")
               ELSE handleUserEndpoints(utility, r)
      thrown ==
        IF early # NoError THEN early
        ELSE IF asked.offered = <<>> /\ asked.ran # <<>>
        THEN PlainError("user endpoint failed")
        ELSE IF setup = "throws" THEN PlainError("Invalid provider config")
        ELSE NoError
      engine == setResponse(handledBy(asked, "issuer"),
                            Response(200, "issuer response"))
      caught == IF early # NoError THEN utility ELSE asked
      replied ==
        IF thrown.kind = "RequestError"
        THEN setResponse(caught, Response(thrown.status, thrown.message))
        ELSE caught
  IN  IF utility.response # null
      THEN [manager |-> utility, raised |-> "none",
            returned |-> utility.response.v]
      ELSE IF thrown = NoError
      THEN [manager |-> engine, raised |-> "none",
            returned |-> engine.response.v]
      ELSE IF thrown.kind = "RequestError"
      THEN [manager |-> replied, raised |-> thrown.kind,
            returned |-> replied.response.v]
      ELSE [manager |-> caught, raised |-> thrown.kind,
            returned |-> Response(500, "Internal Server Error")]

HandlerRequests ==
  [method : {"GET", "POST", "OPTIONS"},
   path : {"/health", "/version", "/user-endpoint", "/user-endpoint/me",
           "/authorize"},
   query : {[NoQueryParams EXCEPT !.client_id = c] :
              c \in {null, Some(<<"acme">>), Some(<<"ghost">>)}},
   form : {NoForm},
   cookies : {NoCookies}]

FetchHandlers ==
  /\ \E r \in HandlerRequests, setup \in {"ok", "throws"},
        userEndpoints \in {"answers", "throws"} :
       resp' = [Resp0 EXCEPT !.op = "_fetch handlers",
                  !.req = [request |-> r, setup |-> setup,
                           userEndpoints |-> userEndpoints],
                  !.out = fetchHandlers(r, setup, userEndpoints)]
  /\ UNCHANGED <<projectTable, users, inviteLinks, tokens, now, nextId, rest>>

NextHandlers == FetchHandlers
SpecHandlers == Init /\ [][NextHandlers]_vars

\* ------------------------------------------------------------------------
\* SpecParserConfig: the success callback of a tenant whose configurations
\* may share a type.  A configuration is told from another of its type by
\* its data.
\* ------------------------------------------------------------------------
ConfiguredTypes == {"password", "oidc", "appleoidc"}
DataConfigs == [type : ConfiguredTypes, enabled : BOOLEAN, data : {"d1", "d2"}]
DataProvidersData == UNION {[1..n -> DataConfigs] : n \in 0..MaxProviders}

\* project?.providers_data.find((p) => p.type === value.provider)
find(providers_data, type) ==
  IF \E i \in 1..Len(providers_data) : providers_data[i].type = type
  THEN Some(providers_data[CHOOSE i \in 1..Len(providers_data) :
                             /\ providers_data[i].type = type
                             /\ \A j \in 1..(i - 1) :
                                  providers_data[j].type # type])
  ELSE null

\* issuer({providers: await generateProvidersFromConfig({project}), success}):
\* a login by a provider the issuer has a handler for reaches success, which
\* picks the configuration it hands to getOrCreateUser
SuccessCallback ==
  /\ \E pd \in DataProvidersData, type \in ConfiguredTypes :
       LET project == [clientID |-> "beta", providers_data |-> pd]
           generated == generateProvidersFromConfig(project)
       IN  /\ ~generated.raised
           /\ type \in DOMAIN generated.providers
           /\ resp' = [Resp0 EXCEPT !.op = "success",
                         !.clientID = Some("beta"),
                         !.req = [project |-> project, provider |-> type],
                         !.out = [handler |-> generated.providers[type],
                                  providerConfig |-> find(pd, type)]]
  /\ UNCHANGED <<projectTable, users, inviteLinks, tokens, now, nextId, rest>>

NextParserConfig == SuccessCallback
SpecParserConfig == Init /\ [][NextParserConfig]_vars

\* ------------------------------------------------------------------------
\* SpecFrame: updates and clears of the session documents in a tenant with
\* two users
\* ------------------------------------------------------------------------
FramePatches == {JObj([a |-> 1]), JNull}

FrameUpdatePublic ==
  \E u \in UserIDs, d \in FramePatches, k \in BOOLEAN :
    UpdatePublic("beta", u, d, k)
FrameUpdatePrivate ==
  \E u \in UserIDs, d \in FramePatches, k \in BOOLEAN :
    UpdatePrivate("beta", u, d, k)

NextFrame == Register \/ FrameUpdatePublic \/ FrameUpdatePrivate
SpecFrame == Init /\ [][NextFrame]_vars

\* ------------------------------------------------------------------------
\* D1Storage, the key-value adapter OpenAuth keeps its own records in.  Each
\* call is one SQL statement on the table (key TEXT PRIMARY KEY, value TEXT,
\* expiry INTEGER), after ensureTable has created the table if it is missing.
\* ------------------------------------------------------------------------
StorageValues == {JObj([a |-> 1]), JObj([a |-> 2])}
\* what a call resolves to when there is no row
JUndefined == [t |-> "undefined"]
\* an INTEGER column is SQL NULL or a number
Integer(n) == [integer |-> n]
\* expiry?: Date
Expiries == {null} \cup {Some(t) : t \in 0..MaxNow}
EmptyTable == [keyStr \in {} |-> SQLNULL]

\* joinKey of the OpenAuth storage module: the parts joined by a separator
SEPERATOR == ":"
RECURSIVE joinKey(_)
joinKey(key) ==
  IF Len(key) = 1 THEN key[1]
  ELSE key[1] \o SEPERATOR \o joinKey(Tail(key))

\* CREATE TABLE IF NOT EXISTS
ensureTable(table) == IF table = NoTable THEN EmptyTable ELSE table

\* SELECT value WHERE key = ? AND (expiry IS NULL OR expiry > now);
\* no row: undefined, otherwise JSON.parse of the column
get(table, key, t) ==
  LET rows == ensureTable(table)
      keyStr == joinKey(key)
      result == /\ keyStr \in DOMAIN rows
                /\ \/ rows[keyStr].expiry = SQLNULL
                   \/ rows[keyStr].expiry.integer > t
  IN IF ~result THEN JUndefined ELSE parse(rows[keyStr].value)

\* INSERT ... ON CONFLICT(key) DO UPDATE SET value, expiry
set(table, key, value, expiry) ==
  LET rows == ensureTable(table)
      keyStr == joinKey(key)
      expiryMs == IF expiry.some THEN Integer(expiry.v) ELSE SQLNULL
  IN [k \in DOMAIN rows \cup {keyStr} |->
        IF k = keyStr
        THEN [value |-> stringify(value), expiry |-> expiryMs]
        ELSE rows[k]]

\* DELETE WHERE key = ?
remove(table, key) ==
  LET rows == ensureTable(table)
      keyStr == joinKey(key)
  IN [k \in DOMAIN rows \ {keyStr} |-> rows[k]]

\* cleanupExpiredEntries: DELETE WHERE expiry IS NOT NULL AND expiry <= now,
\* resolving to the number of rows deleted; it does not create the table,
\* and the statement fails when the table is missing.  The variant deletes
\* the entries that expire within the next millisecond as well.
cleanupExpiredEntries_Early(table, t) ==
  IF table = NoTable
  THEN [table |-> table, threw |-> TRUE, changes |-> 0]
  ELSE LET expired == {k \in DOMAIN table :
                         table[k].expiry # SQLNULL
                         /\ table[k].expiry.integer <= t + 1}
       IN [table |-> [k \in DOMAIN table \ expired |-> table[k]],
           threw |-> FALSE, changes |-> Cardinality(expired)]
cleanupExpiredEntries(table, t) ==
  IF table = NoTable
  THEN [table |-> table, threw |-> TRUE, changes |-> 0]
  ELSE LET expired == {k \in DOMAIN table :
                         table[k].expiry # SQLNULL
                         /\ table[k].expiry.integer <= t}
       IN [table |-> [k \in DOMAIN table \ expired |-> table[k]],
           threw |-> FALSE, changes |-> Cardinality(expired)]

StorageGet ==
  /\ \E key \in StorageKeys :
       resp' = [Resp0 EXCEPT !.op = "storage.get",
                  !.req = [key |-> key, now |-> now],
                  !.out = [value |-> get(storageTable, key, now)]]
  /\ storageTable' = ensureTable(storageTable)
  /\ UNCHANGED <<projectTable, users, inviteLinks, tokens, now, nextId, cli,
                 inflight, currentProjectCache, everStored, written>>

StorageSet ==
  /\ \E key \in StorageKeys, value \in StorageValues, expiry \in Expiries :
       /\ storageTable' = set(storageTable, key, value, expiry)
       /\ written' = [written EXCEPT ![key] =
                        [op |-> "set", value |-> value, expiry |-> expiry]]
       /\ resp' = [Resp0 EXCEPT !.op = "storage.set",
                     !.req = [key |-> key, value |-> value, expiry |-> expiry]]
  /\ UNCHANGED <<projectTable, users, inviteLinks, tokens, now, nextId, cli,
                 inflight, currentProjectCache, everStored>>

StorageRemove ==
  /\ \E key \in StorageKeys :
       /\ storageTable' = remove(storageTable, key)
       /\ written' = [written EXCEPT ![key] =
                        [op |-> "remove", value |-> JNull, expiry |-> null]]
       /\ resp' = [Resp0 EXCEPT !.op = "storage.remove",
                     !.req = [key |-> key]]
  /\ UNCHANGED <<projectTable, users, inviteLinks, tokens, now, nextId, cli,
                 inflight, currentProjectCache, everStored>>

CleanupExpired ==
  /\ LET result == cleanupExpiredEntries(storageTable, now)
     IN /\ storageTable' = result.table
        /\ resp' = [Resp0 EXCEPT !.op = "cleanupExpiredEntries",
                      !.req = [now |-> now],
                      !.out = [threw |-> result.threw,
                               changes |-> result.changes]]
  /\ UNCHANGED <<projectTable, users, inviteLinks, tokens, now, nextId, cli,
                 inflight, currentProjectCache, everStored, written>>

NextStorage ==
  StorageGet \/ StorageSet \/ StorageRemove \/ CleanupExpired \/ Tick
SpecStorage == Init /\ [][NextStorage]_vars

\* ------------------------------------------------------------------------
\* Vocabulary of the properties
\* ------------------------------------------------------------------------
RowsOf(u, c, identifier) ==
  {i \in 1..Len(u[c]) : u[c][i].identifier = identifier}
HasRow(u, c, identifier) == RowsOf(u, c, identifier) # {}
RowOf(u, c, identifier) == u[c][CHOOSE i \in RowsOf(u, c, identifier) : TRUE]

\* The identifier and the profile a provider payload stands for
ValueIdentifier(v) == IF v.provider = "password" THEN v.email ELSE v.id.sub
ValueProfile(v) == IF v.provider = "password" THEN [email |-> v.email] ELSE v.id

LinkIds(links) == {l.id : l \in links}
LinkOf(links, id) == CHOOSE l \in links : l.id = id
Expired(links, id, t) == id \in LinkIds(links) /\ LinkOf(links, id).expiresAt < t
Valid(links, id, t) == id \in LinkIds(links) /\ LinkOf(links, id).expiresAt >= t

\* This step is a provider flow of tenant c that ended in success(value)
LoginStep(op) ==
  /\ resp'.op = op
  /\ now' = now
  /\ resp'.clientID # null
  /\ resp'.clientID.v \in Tenants
LoginTenant == resp'.clientID.v
LoginIdentifier == ValueIdentifier(resp'.value)
\* ... and it is a first login in an invite-only tenant
GatedStep(op) ==
  /\ LoginStep(op)
  /\ projectTable[LoginTenant].registerOnInvite
  /\ ~HasRow(users, LoginTenant, LoginIdentifier)

\* What the requests of the admin and session endpoints presented
AdminOps == {"GET /user", "PUT /user", "DELETE /user", "GET /users"}
PublicOps == {"GET /session/public", "PATCH /session/public",
              "DELETE /session/public"}
PrivateOps == {"GET /session/private", "PATCH /session/private",
               "DELETE /session/private"}

SecretMissing(s) == s = null \/ s.v = <<>>
\* the presented secret is the stored secret of the tenant the request names
SecretOk(r) ==
  /\ r.secret # null
  /\ r.clientID.v \in DOMAIN projectTable
  /\ r.secret.v = projectTable[r.clientID.v].secret
\* the presented credential is a bearer token the tenant's issuer signed
TokenOk(r) ==
  /\ r.auth # null
  /\ r.auth.v.scheme = "Bearer"
  /\ r.auth.v.token.signed
  /\ r.auth.v.token.subject \in tokens
  /\ r.auth.v.token.subject.clientID = r.clientID.v
RejectedAs(r, message) == ~r.success /\ r.status = 401 /\ r.error = message

\* ------------------------------------------------------------------------
\* C1. Secret check: for every tenant T a missing or empty presented secret
\* is rejected before any storage lookup, a secret different from T's stored
\* secret is rejected, the exact stored secret is accepted, and a wrong
\* secret is rejected in the same way whether or not T exists.
\* ------------------------------------------------------------------------
C1_SecretCheck ==
  /\ resp.op = "ensureSecret" =>
       LET T == resp.clientID.v
           s == resp.secret
       IN /\ SecretMissing(s)
             => /\ RejectedAs(resp, "Unauthorized: Missing secret")
                /\ ~resp.lookup
          /\ (~SecretMissing(s) /\ T \in DOMAIN projectTable
              /\ s.v # projectTable[T].secret)
             => RejectedAs(resp, "Unauthorized: Invalid secret")
          /\ (~SecretMissing(s) /\ T \notin DOMAIN projectTable)
             => RejectedAs(resp, "Unauthorized: Invalid secret")
          /\ (~SecretMissing(s) /\ T \in DOMAIN projectTable
              /\ s.v = projectTable[T].secret)
             => resp.success
  /\ (resp.op \in AdminOps /\ SecretMissing(resp.secret))
     => ~resp.success /\ ~resp.lookup

\* beta is asked with the secret of acme
C1_Witness ==
  /\ resp.op = "ensureSecret"
  /\ resp.clientID = Some("beta")
  /\ resp.secret = Some(S1)
  /\ ~resp.success /\ resp.lookup

\* ------------------------------------------------------------------------
\* C2. Admin endpoints: a request whose X-Client-Secret is missing or is not
\* the stored secret of the tenant in the path is answered with status 401,
\* and no user row of that tenant is read, updated or deleted by it.
\* ------------------------------------------------------------------------
C2_AdminUnauthorized ==
  [][(resp'.op \in AdminOps /\ ~SecretOk(resp'))
     => /\ resp'.status = 401
        /\ users' = users
        /\ ~resp'.rowRead /\ ~resp'.rowWritten]_vars

\* ------------------------------------------------------------------------
\* C3. Session endpoints gate: a private endpoint reads or writes a row only
\* after the secret check and the token check both succeeded; a public
\* endpoint only after the token check succeeded; a public endpoint's
\* response never contains the private document, and a public endpoint
\* leaves every private document as it was.
\* ------------------------------------------------------------------------
PrivateColumn(rows) == [i \in 1..Len(rows) |-> rows[i].session_private]

C3_SessionGate ==
  [][/\ (resp'.op \in PrivateOps
         /\ (resp'.rowRead \/ resp'.rowWritten \/ users' # users))
        => SecretOk(resp') /\ TokenOk(resp')
     /\ (resp'.op \in PublicOps
         /\ (resp'.rowRead \/ resp'.rowWritten \/ users' # users))
        => TokenOk(resp')
     /\ resp'.op \in PublicOps
        => /\ resp'.body.private = JNull
           /\ \A c \in Tenants :
                PrivateColumn(users'[c]) = PrivateColumn(users[c])]_vars

\* a public read of a user whose private document is {a: 1}
C3_Witness ==
  /\ resp.op = "GET /session/public"
  /\ resp.success
  /\ resp.body.private = JNull
  /\ \E i \in IndexOfId(users["beta"], resp.userID) :
       users["beta"][i].session_private = stringify(JObj([a |-> 1]))

\* ------------------------------------------------------------------------
\* C4. Invite gating, rejection: in an invite-only tenant a first login that
\* carries no invite id, or the id of an expired invite link, is rejected and
\* the tenant's user table has no row for the identifier afterwards.
\* ------------------------------------------------------------------------
C4_InviteGateRejects ==
  [][(/\ GatedStep("auth")
      /\ \/ resp'.inviteID = null
         \/ Expired(inviteLinks, resp'.inviteID.v, now))
     => /\ ~resp'.success
        /\ ~HasRow(users', LoginTenant, LoginIdentifier)
        /\ users' = users]_vars

C4_Witness ==
  /\ resp.op = "auth"
  /\ resp.clientID = Some("acme")
  /\ resp.inviteID = Some("inv1")
  /\ resp.error = "Invite link has expired"
  /\ ~resp.success
  /\ ~HasRow(users, "acme", ValueIdentifier(resp.value))

\* ------------------------------------------------------------------------
\* C5. Invite gating, consumption.  As first stated: a first login in an
\* invite-only tenant with a valid unexpired invite id creates the user row
\* and deletes the invite link.
\* ------------------------------------------------------------------------
C5_AlwaysConsumed ==
  [][(GatedStep("auth") /\ resp'.inviteID # null
      /\ Valid(inviteLinks, resp'.inviteID.v, now))
     => /\ resp'.success
        /\ HasRow(users', LoginTenant, LoginIdentifier)
        /\ resp'.inviteID.v \notin LinkIds(inviteLinks')]_vars

\* C5 as amended: the user row is created; the invite link is deleted unless
\* the deletion itself failed, which is logged as a warning; an invite id
\* without a row is refused as "not found" and never gets a row again.
C5_ConsumedUnlessRemovalFails ==
  [][/\ (GatedStep("auth") /\ resp'.inviteID # null
         /\ Valid(inviteLinks, resp'.inviteID.v, now))
        => /\ resp'.success
           /\ HasRow(users', LoginTenant, LoginIdentifier)
           /\ resp'.warning \/ resp'.inviteID.v \notin LinkIds(inviteLinks')
     /\ (GatedStep("auth") /\ resp'.inviteID # null
         /\ resp'.inviteID.v \notin LinkIds(inviteLinks))
        => /\ ~resp'.success
           /\ resp'.error = "Invite link not found"
     /\ LinkIds(inviteLinks') \subseteq LinkIds(inviteLinks)]_vars

C5_Witness ==
  /\ resp.op = "auth"
  /\ resp.clientID = Some("acme")
  /\ resp.inviteID = Some("inv1")
  /\ resp.success /\ resp.inserted /\ ~resp.warning
  /\ HasRow(users, "acme", ValueIdentifier(resp.value))
  /\ "inv1" \notin LinkIds(inviteLinks)

\* ------------------------------------------------------------------------
\* C6. Returning users never need an invite: in an invite-only tenant a login
\* for an identifier that already has a user row succeeds without an invite
\* id, and no invite link is validated (none is removed as expired).
\* ------------------------------------------------------------------------
C6_ReturningNeedsNoInvite ==
  [][(/\ LoginStep(resp'.op)
      /\ resp'.op \in {"auth", "fetch"}
      /\ projectTable[LoginTenant].registerOnInvite
      /\ HasRow(users, LoginTenant, LoginIdentifier)
      /\ resp'.inviteID = null)
     => /\ resp'.success
        /\ inviteLinks' = inviteLinks]_vars

\* ------------------------------------------------------------------------
\* C7. An invite link is tenant-scoped: a first-time registration in an
\* invite-only tenant B succeeds only with an invite link owned by B.
\* ------------------------------------------------------------------------
C7_InviteTenantScoped ==
  [][(GatedStep("auth") /\ resp'.success)
     => /\ resp'.inviteID # null
        /\ resp'.inviteID.v \in LinkIds(inviteLinks)
        /\ LinkOf(inviteLinks, resp'.inviteID.v).clientID = LoginTenant]_vars

\* ------------------------------------------------------------------------
\* C8. User upsert is find-or-create keyed by identifier: after a successful
\* login for (T, I) there is exactly one row for I in T, the login returned
\* that row's id, a row that existed before keeps its id (no row is added),
\* and the stored profile is this call's profile with the provider tag, not
\* a union with what was stored before.
\* ------------------------------------------------------------------------
StoredProfile(u, c, identifier) == parse(RowOf(u, c, identifier).data)

C8_UpsertByIdentifier ==
  [][(LoginStep("auth") /\ resp'.success)
     => /\ Cardinality(RowsOf(users', LoginTenant, LoginIdentifier)) = 1
        /\ RowOf(users', LoginTenant, LoginIdentifier).id = resp'.userID
        /\ HasRow(users, LoginTenant, LoginIdentifier)
           => /\ RowOf(users, LoginTenant, LoginIdentifier).id = resp'.userID
              /\ Len(users'[LoginTenant]) = Len(users[LoginTenant])
        /\ LET stored == StoredProfile(users', LoginTenant, LoginIdentifier)
               profile == ValueProfile(resp'.value)
           IN /\ stored.t = "obj"
              /\ DOMAIN stored.o = (DOMAIN profile) \cup {"provider"}
              /\ \A k \in DOMAIN profile : stored.o[k] = profile[k]
              /\ stored.o["provider"] = resp'.value.provider]_vars

\* a second login of i1 that brought another profile than the stored one
C8_Witness ==
  /\ resp.op = "auth"
  /\ resp.success /\ ~resp.inserted
  /\ resp.value.provider = "oidc"
  /\ ValueIdentifier(resp.value) = "i1"
  /\ resp.userID = 1
  /\ now = 0

\* ------------------------------------------------------------------------
\* C9. Session merge semantics: for an existing user with stored document D,
\* an update with patch P and replace = false stores the shallow merge of
\* D's top-level keys with P (P's keys win, keys absent from P are kept);
\* with replace = true it stores P verbatim; a read returns the stored
\* document, so PATCH {a:1}, PATCH {b:2}, GET returns {a:1, b:2}.
\* ------------------------------------------------------------------------
Keys(v) == IF v.t = "obj" THEN DOMAIN v.o ELSE {}
ShallowMerge(D, P, M) ==
  /\ M.t = "obj"
  /\ DOMAIN M.o = Keys(D) \cup Keys(P)
  /\ \A k \in DOMAIN M.o : M.o[k] = IF k \in Keys(P) THEN P.o[k] ELSE D.o[k]

\* the document stored in column col after this step is the merge, or the
\* patch itself when the update replaces
StoresMerge(col) ==
  LET T == resp'.clientID.v
      at == IndexOfId(users[T], resp'.userID)
  IN at # {}
     => LET i == CHOOSE j \in at : TRUE
            D == parseOrNull(users[T][i][col])
            S == parse(users'[T][i][col])
        IN /\ resp'.success
           /\ resp'.skipMerge => S = resp'.patch
           /\ ~resp'.skipMerge => ShallowMerge(D, resp'.patch, S)
           /\ users' = [users EXCEPT ![T][i][col] = stringify(S)]

ReturnsStored(col, field) ==
  LET T == resp'.clientID.v
  IN \A i \in IndexOfId(users'[T], resp'.userID) :
       resp'.body[field] = parseOrNull(users'[T][i][col])

C9_SessionMerge ==
  [][/\ resp'.op \in {"updateUserPublicData", "PATCH /session/public"}
        => StoresMerge("session_public")
     /\ resp'.op = "updateUserPrivateData"
        => StoresMerge("session_private")
     /\ (resp'.op \in {"getUserPublicData", "GET /session/public",
                       "updateUserPublicData", "PATCH /session/public"}
         /\ resp'.success)
        => ReturnsStored("session_public", "public")
     /\ (resp'.op \in {"getUserPrivateData", "updateUserPrivateData"}
         /\ resp'.success)
        => ReturnsStored("session_private", "private")]_vars

C9_Witness ==
  /\ resp.op = "GET /session/public"
  /\ resp.success
  /\ resp.body.public = JObj([a |-> 1, b |-> 2])

\* ------------------------------------------------------------------------
\* C10. Session operations on a missing user: when the tenant has no row
\* with the id the operation is given, the operation ends in a "User not
\* found" error, never in a success response, and writes nothing.
\* ------------------------------------------------------------------------
C10_MissingUserNotFound ==
  [][(/\ resp'.op \in PublicOps \cup PrivateOps
      /\ resp'.userID # 0
      /\ IndexOfId(users[resp'.clientID.v], resp'.userID) = {})
     => /\ ~resp'.success
        /\ resp'.error = "User not found"
        /\ resp'.status \notin 200..299
        /\ users' = users]_vars

\* ------------------------------------------------------------------------
\* C11. Admin list pagination: for a tenant with N users in insertion order
\* and a request with page p >= 1 and limit l >= 1, the list returned is
\* exactly the users at positions (p-1)*l+1 .. min(p*l, N), in insertion
\* order; without a limit all users are returned.
\* ------------------------------------------------------------------------
PageOf(rows, l, p, list) ==
  LET N == Len(rows)
      first == (p - 1) * l + 1
      last == IF p * l < N THEN p * l ELSE N
  IN /\ Len(list) = IF last >= first THEN last - first + 1 ELSE 0
     /\ \A k \in 1..Len(list) :
          /\ list[k].id = rows[first + k - 1].id
          /\ list[k].identifier = rows[first + k - 1].identifier

JsonFields == {"data", "session_public", "session_private"}

PutFrame(old, new, body) ==
  /\ new.id = old.id
  /\ body.identifier = null => new.identifier = old.identifier
  /\ body.identifier # null => new.identifier = body.identifier.v
  /\ \A f \in JsonFields :
       /\ body[f] = null => new[f] = old[f]
       /\ body[f] # null => new[f] # SQLNULL /\ parse(new[f]) = body[f].v

C13_DeleteMissingFails ==
  [][(resp'.op = "DELETE /user" /\ SecretOk(resp'))
     => LET rows == users[resp'.clientID.v]
        IN IF IndexOfId(rows, resp'.userID) # {}
           THEN /\ resp'.success
                /\ IndexOfId(users'[resp'.clientID.v], resp'.userID) = {}
           ELSE /\ ~resp'.success
                /\ resp'.status # 200
                /\ users' = users]_vars

\* ------------------------------------------------------------------------
\* C14. Request context precedence: the tenant id and the copy-template id
\* are each the query value if present, else the form field if the request
\* is a POST and the field is present, else the cookie, else null; the
\* invite id is the query parameter if present, else the cookie, else null.
\* ------------------------------------------------------------------------
RECURSIVE FirstPresent(_)
FirstPresent(s) ==
  IF s = <<>> THEN null
  ELSE IF s[1] # null THEN s[1] ELSE FirstPresent(Tail(s))

\* what a request says about the tenant and the copy template: one
\* "tenant::copy" value for the RequestManager, two parameters otherwise
Parts(x) == IF x = null THEN null ELSE Some(split(x.v))
Whole(x) == IF x = null THEN null ELSE Some(text(x.v))
FormOf(r) == IF r.method = "POST" THEN r.form ELSE NoForm
Named(op, r, fields, field) ==
  IF op = "RequestManager.requestToParams"
  THEN pieceAt(Parts(fields.client_id), IF field = "client_id" THEN 1 ELSE 2)
  ELSE IF field = "client_id" THEN Whole(fields.client_id) ELSE fields.copy_id

C14_Precedence ==
  resp.op \in {"requestToParams", "RequestManager.requestToParams"}
  => LET r == resp.req
         from(field) == FirstPresent(<<Named(resp.op, r, r.query, field),
                                       Named(resp.op, r, FormOf(r), field),
                                       r.cookies[field]>>)
     IN /\ resp.out.clientID = from("client_id")
        /\ resp.out.copyID = from("copy_id")
        /\ resp.out.inviteID = FirstPresent(<<r.query.invite_id, r.cookies.invite_id>>)

\* the same statement for the RequestManager alone
C14_PrecedenceRM ==
  resp.op = "RequestManager.requestToParams" => C14_Precedence

\* ------------------------------------------------------------------------
\* C15. Cookie re-issue: the response to a tenant-scoped request sets the
\* tenant, copy-template and invite cookies for exactly those of the three
\* identifiers that were resolved non-null, each with the resolved value;
\* the tenant cookie is HttpOnly, Secure, SameSite=None with a max-age of 30
\* days and the invite cookie has a max-age of one day.
\* ------------------------------------------------------------------------
DispatchOps == {"_fetch", "endpoints"}
Parts2Set(cookie) == {cookie[k] : k \in 2..Len(cookie)}
CookiesFor(cookies, name) ==
  {k \in 1..Len(cookies) : \E v \in {"acme", "beta", "ghost", "null", PUBLIC_CLIENT_ID,
                                     "t1", "t5", "inv1"} :
                              cookies[k][1] = name \o "=" \o v}
Reissued(cookies, name, id) ==
  IF id = null THEN CookiesFor(cookies, name) = {}
  ELSE /\ CookiesFor(cookies, name) # {}
       /\ \A k \in CookiesFor(cookies, name) : cookies[k][1] = name \o "=" \o id.v

CookiePolicy(r) ==
  LET p == r.out.params
      cookies == r.out.cookies
  IN /\ Reissued(cookies, COOKIE_NAME, p.clientID)
     /\ Reissued(cookies, COOKIE_COPY_TEMPLATE_ID, p.copyID)
     /\ Reissued(cookies, COOKIE_INVITE_ID, p.inviteID)
     /\ \A k \in CookiesFor(cookies, COOKIE_NAME) :
          {"HttpOnly", "Secure", "SameSite=None", "Max-Age=2592000"}
            \subseteq Parts2Set(cookies[k])
     /\ \A k \in CookiesFor(cookies, COOKIE_INVITE_ID) :
          "Max-Age=86400" \in Parts2Set(cookies[k])

C15_CookieReissue ==
  (resp.op \in DispatchOps /\ resp.out.params.clientID # null) => CookiePolicy(resp)

\* the same statement for the responses the RequestManager prepares
C15_CookieReissueRM ==
  (resp.op = "_fetch" /\ resp.out.params.clientID # null
     /\ resp.out.headers # NoHeaders) => CookiePolicy(resp)

\* ------------------------------------------------------------------------
\* C16. Unknown tenant: a request to the authentication fallback whose
\* resolved client id has no tenant record, and is not the reserved public
\* id, is answered with an authorization-class rejection (401 or 403),
\* never with a 5xx, and the protocol engine is not invoked for it.
\* ------------------------------------------------------------------------
UnknownTenant(r) ==
  /\ r.op \in DispatchOps
  /\ r.out.params.clientID # null
  /\ r.out.params.clientID.v # PUBLIC_CLIENT_ID
  /\ r.out.params.clientID.v \notin DOMAIN projectTable

C16_UnknownTenantRejected ==
  UnknownTenant(resp) => /\ resp.out.status \in {401, 403}
                         /\ ~resp.out.engine

\* the same statement for the Hono endpoints alone
C16_UnknownTenantRejectedHono ==
  (UnknownTenant(resp) /\ resp.op = "endpoints")
  => resp.out.status = 401 /\ ~resp.out.engine

\* what both dispatchers do agree on: a 4xx and no engine
C16_UnknownTenantNoEngine ==
  UnknownTenant(resp) => /\ resp.out.status \in {400, 401}
                         /\ ~resp.out.engine

\* ------------------------------------------------------------------------
\* C17. Token check: every failure to verify a presented bearer token,
\* whatever its cause (expired, malformed, wrong audience, or the verifier
\* raising an error), ends in the same generic Unauthorized (401) outcome,
\* and the underlying reason is not part of the response.
\* ------------------------------------------------------------------------
BearerPresented(r) == r.auth # null /\ r.auth.v.scheme = "Bearer"

C17_TokenFailureGeneric ==
  (resp.op = "GET /session/public" /\ BearerPresented(resp) /\ resp.status # 200)
  => /\ resp.out.thrown.status = 401
     /\ resp.out.thrown.message = "Unauthorized: Invalid token"

\* what does hold: a token the verifier answers for and rejects is reported
\* with the one generic message
C17_RejectedTokenMessage ==
  (resp.op = "GET /session/public" /\ BearerPresented(resp) /\ resp.status # 200
     /\ resp.req.verifier = "answers")
  => resp.out.thrown.message = "Unauthorized: Invalid token"

\* ------------------------------------------------------------------------
\* C18. CORS on failure: every response to a tenant-scoped request that
\* fails the secret check or the token check carries an
\* Access-Control-Allow-Origin header whose value is the tenant's registered
\* origin, or the configured fallback origin, and never "*".
\* ------------------------------------------------------------------------
FailedCheck(r) ==
  \/ r.op = "GET /user" /\ ~SecretOk(r)
  \/ r.op = "GET /session/public" /\ ~TokenOk(r)

OriginsOf(clientID) ==
  {WEBUI_ORIGIN_URL}
  \cup (IF clientID # null /\ clientID.v \in DOMAIN projectTable
        THEN {projectTable[clientID.v].originURL} ELSE {})

Raised(r) == r.op = "_fetch" /\ r.out.raised # "none"
CarriesCors(response) ==
  /\ response.headers.acao # null
  /\ response.headers.credentials = init.credentials
  /\ response.headers.methods = init.methods

C19_ErrorBoundary ==
  Raised(resp)
  => /\ resp.out.logged
     /\ resp.out.status # 0
     /\ CarriesCors(resp.out)
     /\ resp.out.raised # "RequestError"
        => resp.out.status = 500 /\ resp.out.body = "Internal Server Error"

\* the same statement with the CORS headers required of the answers to a
\* RequestError only
C19_ErrorBoundaryRequestErrors ==
  Raised(resp)
  => /\ resp.out.logged
     /\ resp.out.status # 0
     /\ resp.out.raised = "RequestError" => CarriesCors(resp.out)
     /\ resp.out.raised # "RequestError"
        => resp.out.status = 500 /\ resp.out.body = "Internal Server Error"

\* ------------------------------------------------------------------------
\* C20. Admin allowlist on the reserved public tenant: a POST registration
\* request on the public tenant reaches the protocol engine only if its
\* email field equals, case-sensitively and after trimming, one entry of
\* the comma-separated WEBUI_ADMIN_EMAILS list; every other registration
\* request is answered 401 and the engine is not invoked.
\* ------------------------------------------------------------------------
AdminEntries == {<<"a">>, <<"b">>}     \* the entries of "a, b"

PublicRegistration(r) ==
  /\ r.op \in DispatchOps
  /\ r.req.method = "POST"
  /\ r.req.path = "/password/register"
  /\ r.out.params.clientID = Some(PUBLIC_CLIENT_ID)

Allowlisted(email) == email # null /\ trim(email.v) \in AdminEntries

C20_AdminAllowlist ==
  PublicRegistration(resp)
  => /\ resp.out.engine => Allowlisted(resp.req.form.email)
     /\ ~Allowlisted(resp.req.form.email)
        => resp.out.status = 401 /\ ~resp.out.engine

\* amended: the RequestManager checks the trimmed email of every form that
\* has a non-blank one; the Hono endpoints check the email as submitted of
\* every form whose action is "register"; what is not checked goes on to
\* the engine
Checked(r) ==
  IF r.op = "_fetch"
  THEN r.req.form.email # null /\ trim(r.req.form.email.v) # <<>>
  ELSE r.req.form.action = Some("register")

Passes(r) ==
  IF r.op = "_fetch"
  THEN Allowlisted(r.req.form.email)
  ELSE r.req.form.email # null /\ r.req.form.email.v \in AdminEntries

C20_AllowlistWhenChecked ==
  PublicRegistration(resp)
  => /\ (Checked(resp) /\ ~Passes(resp))
        => resp.out.status = 401 /\ ~resp.out.engine
     /\ (Checked(resp) /\ Passes(resp)) => resp.out.status # 401
     /\ ~Checked(resp) => resp.out.status # 401
     /\ (resp.out.status # 401 /\ resp.out.raised = "none") => resp.out.engine

\* an email that differs from an entry by its case only is refused
C20_Witness ==
  /\ PublicRegistration(resp)
  /\ resp.op = "_fetch"
  /\ resp.req.form.email = Some(<<"A">>)
  /\ resp.out.status = 401
  /\ ~resp.out.engine

\* ------------------------------------------------------------------------
\* bin/ commands
\* ------------------------------------------------------------------------
IsPrefix(s, t) ==
  /\ Len(s) <= Len(t)
  /\ \A i \in 1..Len(s) : s[i] = t[i]
Commands(run) == [i \in 1..Len(run.calls) |-> run.calls[i].cmd]
Failed(run) == {i \in 1..Len(run.calls) : run.calls[i].stderr # <<>>}
UpgradeCommands(options) ==
  <<"git pull --rebase --no-edit origin " \o options.version,
    "wrangler d1 migrations apply AUTH_DB">>
  \o (CASE options.deploy = "wrangler" -> <<"wrangler deploy">>
        [] options.deploy = "git" -> <<"git push cloudflare main">>
        [] OTHER -> <<>>)
GitMissing(run) ==
  \E i \in 1..Len(run.errors) : run.errors[i] = "Git is not installed"

\* C21. The commands an upgrade has executed are a prefix of git pull,
\* migrations apply and the deploy step of the chosen method; nothing is
\* executed without git, only the last executed command can have answered
\* a non-empty stderr, and then exit(1) has been called exactly once and
\* the flow has returned; without a failure exit is not called.
C21_UpgradeSequence ==
  cli.flow = "upgrade" =>
    /\ IsPrefix(Commands(cli), UpgradeCommands(cli.options))
    /\ GitMissing(cli) =>
         cli.calls = <<>> /\ cli.exitCodes = <<1>> /\ cli.pc = "returned"
    /\ Failed(cli) \subseteq {Len(cli.calls)}
    /\ Failed(cli) # {} => cli.exitCodes = <<1>> /\ cli.pc = "returned"
    /\ Failed(cli) = {} /\ ~GitMissing(cli) => cli.exitCodes = <<>>
C21_Witness ==
  /\ cli.flow = "upgrade" /\ cli.options.deploy = "git"
  /\ Len(cli.calls) = 3 /\ Failed(cli) = {3}
  /\ cli.exitCodes = <<1>>

HappyPath(run) ==
  run.pc = "returned" /\ run.calls # <<>> /\ Failed(run) = {}
CreateCommands(options) ==
  {createCommand([name |-> n,
                  jurisdiction |-> Coalesce(options.jurisdiction, "US"),
                  location |-> Coalesce(options.location, "us-east")]) :
     n \in {"openauthster", "mydb"}}
GitCommand(cmd) ==
  \E r \in Repos \cup {"http://example.com/repo.git"} :
    cmd \in {"git init", "git remote add cloudflare " \o r,
             "git push --set-upstream cloudflare main",
             "git remote set-url --push cloudflare " \o r,
             "git add . && git commit -m \"Initial commit\" && git push cloudflare main"}

C22_WitnessWrangler ==
  /\ cli.flow = "init" /\ HappyPath(cli) /\ cli.method = "wrangler"
  /\ cli.env = "production" /\ Len(cli.calls) = 3

Reported(run, message) ==
  \E i \in 1..Len(run.errors) : run.errors[i] = message
BinaryMissing(run) ==
  \/ Reported(run, "Wrangler CLI is not installed")
  \/ Reported(run, "Git is not installed")
PushUpstream == "git push --set-upstream cloudflare main"
IsRemoteAdd(cmd) ==
  \E r \in Repos \cup {"http://example.com/repo.git"} :
    cmd = "git remote add cloudflare " \o r
IsCreate(cmd) == \E o \in InitOptions : cmd \in CreateCommands(o)
\* git init, d1 create, migrations apply, dry-run deploy, remote set-url and
\* the initial commit
Fatal(call) == call.cmd # PushUpstream /\ ~IsRemoteAdd(call.cmd)
AlreadyExists(call) ==
  /\ IsCreate(call.cmd)
  /\ includes(call.stderr, "database with that name already exists")
\* wrangler.json is written once before d1 create and once before migrations
WritesSoFar(run) ==
  Cardinality({i \in 1..Len(run.calls) :
                 \/ IsCreate(run.calls[i].cmd)
                 \/ run.calls[i].cmd = "wrangler d1 migrations apply AUTH_DB"})
EndsWithExit1(run, i) ==
  /\ i = Len(run.calls)
  /\ run.exitCodes = <<1>> /\ run.pc = "returned"
  /\ Len(run.writes) = WritesSoFar(run)
PushFailures(run) ==
  {i \in Failed(run) : run.calls[i].cmd = PushUpstream}

PushRejected(call) ==
  /\ call.cmd = PushUpstream /\ call.stderr # <<>>
  /\ ~includes(call.stderr, "Everything up-to-date")
  /\ ~endsWith(call.stderr, "main -> main\n")
C23_WitnessExists ==
  /\ cli.flow = "init" /\ cli.pc = "returned" /\ Len(cli.calls) = 3
  /\ AlreadyExists(cli.calls[1]) /\ cli.exitCodes = <<>>

\* ------------------------------------------------------------------------
\* Concurrent session updates
\* ------------------------------------------------------------------------
Updated(r) == r.op = "update" /\ r.success
PreImage(r) == r.req.currentData.data[r.req.column]

\* C24. A merge stores the pre-image its call read merged with its own
\* patch, whatever has been stored since the read: when another update with
\* a patch on other keys was stored in between, that patch is gone from the
\* stored document.
C24_LostUpdate ==
  Updated(resp) /\ ~resp.skipMerge =>
    /\ resp.out.after =
         JObj(spreadMerge(spread(orEmpty(PreImage(resp))),
                          spread(resp.patch)))
    /\ \A k \in Keys(resp.out.before) \ Keys(PreImage(resp)) :
         k \notin Keys(resp.patch) => k \notin Keys(resp.out.after)
C24_Witness ==
  /\ Updated(resp) /\ ~resp.skipMerge
  /\ \E k \in Keys(resp.out.before) :
       /\ k \notin Keys(PreImage(resp)) /\ k \notin Keys(resp.patch)
       /\ k \notin Keys(resp.out.after)
  /\ Keys(resp.out.after) = Keys(PreImage(resp)) \cup Keys(resp.patch)

SessionRead(r) ==
  r.op \in {"getUserPublicData", "getUserPrivateData"} /\ r.success
Writer(p, column, u) ==
  /\ inflight[p].kind = "update"
  /\ inflight[p].column = column /\ inflight[p].userID = u

\* C25. The stored session document changes only in the single step of an
\* update's UPDATE statement, from what was stored to the complete document
\* that the update computed; a read is one step and returns the document
\* that is stored then, so under any interleaving it returns the initial
\* document or the complete post-image of an update.
C25_AtomicWrite ==
  [][/\ \A column \in Columns, u \in UserIDs :
          documentOf(users'["beta"], column, u)
            # documentOf(users["beta"], column, u)
          => \E p \in Callers :
               /\ Writer(p, column, u) /\ inflight'[p] = NoCall
               /\ documentOf(users'["beta"], column, u)
                    = mergedData(users["beta"], inflight[p])
     /\ SessionRead(resp') =>
          /\ users' = users
          /\ resp'.body.public
               = documentOf(users["beta"], "public", resp'.userID)
          /\ resp'.op = "getUserPrivateData" =>
               resp'.body.private
                 = documentOf(users["beta"], "private", resp'.userID)]_vars
C25_Witness ==
  /\ SessionRead(resp) /\ resp.body.public # JNull
  /\ \E p \in Callers :
       /\ Writer(p, "public", resp.userID)
       /\ inflight[p].currentData.data["public"] # resp.body.public

\* C26. A login whose upsert succeeded and whose invite-link deletion failed
\* logs a warning and still succeeds: it answers with the id of the user's
\* row, the row is in the table with the profile of the payload, the subject
\* is issued, and the invite links are as they were.
C26_RemovalFailureNonFatal ==
  [][(LoginStep("auth") /\ resp'.warning)
     => /\ resp'.success /\ resp'.status = 200
        /\ HasRow(users', LoginTenant, LoginIdentifier)
        /\ RowOf(users', LoginTenant, LoginIdentifier).id = resp'.userID
        /\ LET profile == ValueProfile(resp'.value)
               kept == StoredProfile(users', LoginTenant, LoginIdentifier)
           IN  \A k \in DOMAIN profile : kept.o[k] = profile[k]
        /\ [id |-> resp'.userID, clientID |-> LoginTenant] \in tokens'
        /\ inviteLinks' = inviteLinks]_vars
C26_Witness ==
  /\ resp.op = "auth" /\ resp.warning /\ resp.success /\ resp.inserted
  /\ resp.inviteID # null /\ resp.inviteID.v \in LinkIds(inviteLinks)
  /\ resp.clientID = Some("acme")

\* ------------------------------------------------------------------------
\* Tenant resolution
\* ------------------------------------------------------------------------
Resolved1(r, clientId) == r.op = "getProjectById" /\ r.req.clientId = clientId
LookingUp(p, clientId) ==
  inflight[p].kind = "lookup" /\ inflight[p].clientId = clientId

\* C27. Resolving the reserved public client id answers the synthesized
\* tenant: one provider, of type password and enabled, an empty secret, no
\* invite required; no SELECT on the project table is made for it, the cache
\* is neither asked nor set, and the cache never holds the reserved id.
C27_PublicTenantSynthesized ==
  /\ Resolved1(resp, PUBLIC_CLIENT_ID) =>
       /\ resp.out.project # null
       /\ LET project == resp.out.project.v
          IN  /\ project.clientID = PUBLIC_CLIENT_ID
              /\ Len(project.providers_data) = 1
              /\ project.providers_data[1].type = "password"
              /\ project.providers_data[1].enabled
              /\ project.secret = <<>>
              /\ ~project.registerOnInvite
       /\ ~resp.out.select /\ ~resp.out.has /\ ~resp.out.set
  /\ PUBLIC_CLIENT_ID \notin DOMAIN currentProjectCache
  /\ \A p \in Callers : ~LookingUp(p, PUBLIC_CLIENT_ID)
C27_Witness ==
  /\ Resolved1(resp, PUBLIC_CLIENT_ID)
  /\ PUBLIC_CLIENT_ID \in DOMAIN projectTable
  /\ resp.out.project.v # projectTable[PUBLIC_CLIENT_ID]
  /\ DOMAIN currentProjectCache # {}

Entry(cache, c) == IF c \in DOMAIN cache THEN Some(cache[c]) ELSE null
\* a step of getProjectById that answered before its await
AnsweredAtOnce ==
  /\ resp'.op = "getProjectById" /\ resp' # resp /\ inflight' = inflight
  /\ resp'.req.clientId # PUBLIC_CLIENT_ID

\* C28. For a client id other than the reserved one: a resolve that finds
\* the id in the cache answers the cached record without a SELECT, whatever
\* the project table holds then; a lookup that read no row answers null and
\* leaves the cache as it was; a cache entry is set or replaced only by the
\* end of a lookup for that id, with the row that lookup read, and is never
\* removed; so every cached record is a row that storage has held under
\* that id.
C28_CacheReadThrough ==
  [][/\ AnsweredAtOnce =>
          /\ resp'.req.clientId \in DOMAIN currentProjectCache
          /\ resp'.out.project
               = Some(currentProjectCache[resp'.req.clientId])
          /\ ~resp'.out.select
          /\ currentProjectCache' = currentProjectCache
     /\ \A p \in Callers :
          (inflight[p].kind = "lookup" /\ inflight'[p] = NoCall
           /\ inflight[p].projectData = null)
          => /\ currentProjectCache' = currentProjectCache
             /\ resp'.out.project = null
     /\ \A c \in DOMAIN currentProjectCache : c \in DOMAIN currentProjectCache'
     /\ \A c \in DOMAIN currentProjectCache' :
          /\ Entry(currentProjectCache, c) # Entry(currentProjectCache', c)
             => \E p \in Callers :
                  /\ LookingUp(p, c) /\ inflight'[p] = NoCall
                  /\ inflight[p].projectData = Some(currentProjectCache'[c])
          /\ currentProjectCache'[c] \in everStored'
          /\ currentProjectCache'[c].clientID = c]_vars
\* served from the cache after the stored row was edited
C28_Witness ==
  /\ Resolved1(resp, "beta") /\ ~resp.out.select
  /\ resp.out.project # Some(projectTable["beta"])
  /\ "ghost" \in DOMAIN currentProjectCache
\* a lookup that found no row is still in flight, the tenant has been created
\* since and resolved by the other caller
C28_WitnessCreatedLater ==
  /\ \E p \in Callers : LookingUp(p, "ghost") /\ inflight[p].projectData = null
  /\ Resolved1(resp, "ghost") /\ resp.out.project # null
\* the cache entry of a tenant replaced by a lookup that was in flight
C28_WitnessReplaced ==
  /\ Resolved1(resp, "beta") /\ resp.out.set
  /\ "beta" \in DOMAIN currentProjectCache
  /\ \E p \in Callers :
       /\ LookingUp(p, "beta")
       /\ inflight[p].projectData # Some(currentProjectCache["beta"])

\* ------------------------------------------------------------------------
\* Providers
\* ------------------------------------------------------------------------
Generated(r) == r.op = "generateProvidersFromConfig" /\ ~r.out.raised
ConfigsOf(r, enabled) ==
  {i \in 1..Len(r.req.providers_data) :
     r.req.providers_data[i].enabled = enabled}

\* C29. The provider map built for a tenant has as keys exactly the types
\* of the configurations whose enabled flag is true, and the handler under a
\* key was constructed from an enabled configuration of that type.
C29_EnabledProvidersOnly ==
  Generated(resp) =>
    /\ DOMAIN resp.out.providers
         = {resp.req.providers_data[i].type : i \in ConfigsOf(resp, TRUE)}
    /\ \A t \in DOMAIN resp.out.providers :
         /\ resp.out.providers[t].config.type = t
         /\ resp.out.providers[t].config.enabled
C29_Witness ==
  /\ Generated(resp)
  /\ ConfigsOf(resp, TRUE) # {} /\ ConfigsOf(resp, FALSE) # {}
  /\ \E i \in ConfigsOf(resp, FALSE) :
       resp.req.providers_data[i].type \notin DOMAIN resp.out.providers

\* C30. For oidc, apple, slack, cognito, keycloak, google, jumpcloud and
\* yahoo the extracted identifier is the payload's sub claim, and a payload
\* without sub makes the extraction fail with an error: no other claim, such
\* as email, stands in for it.
C30_SubOnly ==
  resp.op = "parser" /\ resp.req.provider \in SubFamily =>
    IF "sub" \in DOMAIN resp.req.info
    THEN resp.out.ok /\ resp.out.identifier = Some(resp.req.info.sub)
    ELSE ~resp.out.ok
\* what holds: with a sub claim, every one of them answers it
C30_SubWhenPresent ==
  (resp.op = "parser" /\ "sub" \in DOMAIN resp.req.info) =>
    resp.out.ok /\ resp.out.identifier = Some(resp.req.info.sub)

\* a payload without sub whose email became the identifier
C30_EmailStandsIn ==
  /\ resp.op = "parser" /\ resp.req.provider = "slack"
  /\ "sub" \notin DOMAIN resp.req.info
  /\ resp.out.ok /\ resp.out.identifier = Some(resp.req.info.email)

\* The login's identity extraction fails: the vendor answers the access token
\* with a non-2xx status, or the id token carries no sub claim
ExtractionFails(value) ==
  \/ /\ value.provider = "slack"
     /\ ~UserInfoEndpoint[value.tokenset.access].ok
  \/ /\ value.provider = "oidc"
     /\ "sub" \notin DOMAIN value.id

\* C31: a login whose identity extraction fails (non-2xx answer of the
\* vendor's who-am-I endpoint, or an extraction error) fails as a whole: it
\* is not a success, no token is signed, the user table of every tenant is
\* as it was (no row inserted or updated) and no invite link is deleted.
C31_ExtractionFailureAborts ==
  [][(LoginStep("auth") /\ ExtractionFails(resp'.value))
       => /\ ~resp'.success
          /\ resp'.status >= 400
          /\ ~resp'.inserted /\ ~resp'.rowWritten
          /\ users' = users
          /\ inviteLinks' = inviteLinks
          /\ tokens' = tokens
          /\ nextId' = nextId]_vars

\* A Slack login with a revoked token was refused in a tenant that has a user
\* and while the invite link the request carried is still stored
C31_Witness ==
  /\ resp.op = "auth"
  /\ resp.value.provider = "slack"
  /\ ExtractionFails(resp.value)
  /\ ~resp.success
  /\ resp.inviteID # null
  /\ resp.inviteID.v \in LinkIds(inviteLinks)
  /\ users[resp.clientID.v] # <<>>

\* The JSON value a dot-path names: each part is a key of the object reached
\* so far
RECURSIVE Reached(_, _)
Reached(json, parts) ==
  IF parts = <<>> THEN Some(json)
  ELSE IF json.t = "obj" /\ Head(parts) \in DOMAIN json.o
  THEN Reached(json.o[Head(parts)], Tail(parts))
  ELSE null
Parsed == resp.op = "oauth2.parser" /\ resp.req.res.ok
PathParts == splitIdPath(resp.req.idPath)

\* C32: for every idPath and every userinfo JSON value the generic OAuth2
\* parser answers the value the path names when every part exists, and
\* otherwise fails with the "Invalid idPath" error, never with another
\* error and never with an identifier of a partial walk.
C32_IdPathWalk ==
  Parsed =>
    LET named == Reached(resp.req.res.json, PathParts)
    IN  IF named # null
        THEN resp.out.raised = "" /\ resp.out.identifier = named
        ELSE resp.out.raised = "Invalid idPath" /\ resp.out.identifier = null

\* The walk meets a string or a non-zero number before the path ends
ThroughPrimitive ==
  \E n \in 1..(Len(PathParts) - 1) :
    LET at == Reached(resp.req.res.json, SubSeq(PathParts, 1, n))
    IN  at # null /\ at.v.t \in {"str", "num"} /\ truthy(at.v)
\* The path names a property of Object.prototype
NamesInherited == \E n \in 1..Len(PathParts) : PathParts[n] \in Inherited

\* C32, the part the code keeps: a userinfo answer that is an object, walked
\* by a path that stays in objects, null, "" or 0 and names no inherited
\* property, yields the named value or the "Invalid idPath" error.
C32_IdPathWalkInObjects ==
  (Parsed /\ resp.req.res.json.t \in {"obj", "null"}
     /\ ~ThroughPrimitive /\ ~NamesInherited)
    => LET named == Reached(resp.req.res.json, PathParts)
       IN  IF named # null
           THEN resp.out.raised = "" /\ resp.out.identifier = named
           ELSE resp.out.raised = "Invalid idPath" /\ resp.out.identifier = null

\* A nested identifier was found by a two-part path
C32_WitnessNested ==
  /\ Parsed /\ Len(PathParts) = 2
  /\ resp.out.raised = "" /\ resp.out.identifier = Some(JStr("u1"))
\* A path through a string ended in a TypeError
C32_WitnessTypeError ==
  Parsed /\ ThroughPrimitive /\ resp.out.raised = "TypeError"
\* A path that names an inherited property yielded a function
C32_WitnessInherited ==
  Parsed /\ resp.out.raised = "" /\ resp.out.identifier = Some(JFn)

\* The delivery channel the deployment configured for the tenant's code mode
ConfiguredChannel(req) ==
  IF req.project.codeMode = "email"
  THEN CASE req.globalConfig.email = "resend" -> Some("resend")
         [] req.globalConfig.email = "custom" -> Some("sendEmailFunction")
         [] OTHER -> null
  ELSE CASE req.globalConfig.phone = "twilio" -> Some("twilio")
         [] req.globalConfig.phone = "custom" -> Some("sendSMSFunction")
         [] OTHER -> null
CodeSent == resp.op = "sendCode" /\ ~resp.out.raised

\* C33: whenever sendCode returns successfully the code was handed to the
\* channel configured for the tenant's code mode and the channel reported
\* success; a failed or skipped delivery makes sendCode fail.
C33_DeliveredOrFailed ==
  CodeSent =>
    /\ ConfiguredChannel(resp.req) # null
    /\ resp.out.calls = <<ConfiguredChannel(resp.req).v>>
    /\ resp.req.channelOk

\* C33, the part the code keeps: a channel that was called and failed makes
\* sendCode fail, and Resend, Twilio and the custom SMS function are called
\* by the code provider when they are the configured channel.
C33_CalledChannelReported ==
  /\ CodeSent /\ resp.out.calls # <<>> => resp.req.channelOk
  /\ (CodeSent /\ resp.req.provider = "code"
        /\ ConfiguredChannel(resp.req) \in
             {Some("resend"), Some("twilio"), Some("sendSMSFunction")})
       => resp.out.calls = <<ConfiguredChannel(resp.req).v>>

\* sendCode succeeded in email mode with the custom email function
\* configured, and called nothing
C33_WitnessCustomEmailSkipped ==
  /\ CodeSent /\ resp.req.project.codeMode = "email"
  /\ resp.req.globalConfig.email = "custom" /\ resp.out.calls = <<>>
\* the password provider succeeded in phone mode, and called nothing
C33_WitnessPasswordPhone ==
  /\ CodeSent /\ resp.req.provider = "password"
  /\ resp.req.project.codeMode = "phone" /\ resp.out.calls = <<>>
\* a Twilio failure failed sendCode
C33_WitnessTwilioFailed ==
  /\ resp.op = "sendCode" /\ resp.out.raised
  /\ resp.out.calls = <<"twilio">> /\ ~resp.req.channelOk

\* C34: an invite link is deleted only by the registration it authorized: a
\* login by an identifier that already has a row in the tenant, or a login in
\* a tenant that does not require invites, deletes no invite link, even when
\* the request carries an invite id.
C34_OnlyRegistrationConsumes ==
  [][(LoginStep("auth")
        /\ (\/ HasRow(users, LoginTenant, LoginIdentifier)
            \/ ~projectTable[LoginTenant].registerOnInvite))
       => inviteLinks' = inviteLinks]_vars

\* C34, the part the code keeps: a login deletes no invite link but the one
\* whose id the request carried.
C34_DeletesOnlyPresented ==
  [][LoginStep("auth")
       => \A l \in inviteLinks \ inviteLinks' :
            resp'.inviteID = Some(l.id)]_vars

\* A returning user's login succeeded and the invite link named by the
\* request is gone
C34_WitnessReturning ==
  /\ resp.op = "auth" /\ resp.success /\ ~resp.inserted
  /\ resp.inviteID # null
  /\ resp.inviteID.v \notin LinkIds(inviteLinks)

\* C35: two concurrent first logins with different identifiers in the
\* invite-only tenant that present the same valid invite id create at most
\* one user row.  In SpecInviteRace the tenant starts without users and every
\* login presents inv1, so the tenant never has a second row.
C35_OneInviteOneRegistration == Len(users[RaceTenant]) <= 1

\* C35, the part the code keeps: the call that inserts the second row had
\* validated the link before the call that inserted the first row deleted
\* it: at the insert the other call is still before its DELETE, or the link
\* is already gone.
C35_SecondRowNeedsOverlap ==
  [][(Len(users[RaceTenant]) = 1 /\ Len(users'[RaceTenant]) = 2)
       => \E p \in Callers :
            /\ LoginAt(p, "upsert")
            /\ \E q \in Callers \ {p} :
                 \/ LoginAt(q, "consume")
                 \/ "inv1" \notin LinkIds(inviteLinks)]_vars

\* Both identifiers are registered on the one invite link
C35_WitnessTwoRows ==
  /\ Len(users[RaceTenant]) = 2
  /\ users[RaceTenant][1].identifier # users[RaceTenant][2].identifier
  /\ \A p \in Callers : inflight[p] = NoCall

\* This step is a request to /session/{public,private}/:clientID
SessionStep == resp'.op \in PublicOps \cup PrivateOps /\ resp' # resp
PathTenant == resp'.clientID.v
\* The row the answer shows is the row with that id in the table of tenant c
ShowsRowOf(c) ==
  \E i \in IndexOfId(users'[c], resp'.userID) :
    /\ resp'.body.user_id = users'[c][i].id
    /\ resp'.body.public = parseOrNull(users'[c][i].session_public)
    /\ resp'.op \in PrivateOps
         => resp'.body.private = parseOrNull(users'[c][i].session_private)

C36_WitnessCrossTenant ==
  /\ resp.op \in PublicOps /\ ~resp.success /\ ~resp.rowRead
  /\ resp.auth # null /\ resp.auth.v.scheme = "Bearer"
  /\ resp.auth.v.token.signed
  /\ resp.auth.v.token.subject \in tokens
  /\ resp.auth.v.token.subject.clientID # resp.clientID.v

Handled == resp.op = "_fetch handlers"
Ran(handler) == \E i \in 1..Len(resp.out.manager.ran) : resp.out.manager.ran[i] = handler

\* C37: in the RequestManager dispatcher the first response handed to
\* setResponse wins and is never replaced; for each request at most one of
\* the utility handler, the user-endpoint handler and the protocol engine
\* processes it; the engine is not invoked for a request whose path starts
\* with /user-endpoint.
C37_SingleHandler ==
  Handled =>
    /\ resp.out.manager.offered # <<>>
         => resp.out.manager.response = Some(Head(resp.out.manager.offered))
    /\ Len(resp.out.manager.ran) <= 1
    /\ startsWith(resp.req.request.path, "/user-endpoint") => ~Ran("issuer")

\* C37, the part the code keeps: the manager holds the first response it was
\* handed; a request the utility switch answers reaches no other handler;
\* the engine runs only for a known tenant.
C37_FirstResponseWins ==
  Handled =>
    /\ resp.out.manager.offered # <<>>
         => resp.out.manager.response = Some(Head(resp.out.manager.offered))
    /\ Ran("utility") => resp.out.manager.ran = <<"utility">>
    /\ Ran("issuer") => resp.req.request.query.client_id = Some(<<"acme">>)

\* A GET under /user-endpoint was answered by UserEndpoints and was handed to
\* the issuer as well, whose response was dropped
C37_WitnessBothRan ==
  /\ Handled /\ resp.out.manager.ran = <<"UserEndpoints", "issuer">>
  /\ resp.out.returned = Response(200, "user endpoint response")
  /\ Len(resp.out.manager.offered) = 2
\* /health was offered two responses and kept the first
C37_WitnessHealth ==
  /\ Handled /\ resp.req.request.path = "/health"
  /\ Len(resp.out.manager.offered) >= 2
  /\ resp.out.returned = Response(200, "OK")

Succeeded == resp.op = "success"
\* the tenant's configurations of the type the login used
OfLoginType ==
  {i \in 1..Len(resp.req.project.providers_data) :
     resp.req.project.providers_data[i].type = resp.req.provider}

\* C38: on a successful authentication by provider type t the configuration
\* handed to the identity parser is an enabled configuration of the tenant
\* with type t, the one the handler for t was built from, also when the
\* tenant has several configurations of type t.
C38_ParserConfigIsHandlers ==
  Succeeded =>
    /\ resp.out.providerConfig # null
    /\ resp.out.providerConfig.v.type = resp.req.provider
    /\ resp.out.providerConfig.v.enabled
    /\ resp.out.providerConfig.v = resp.out.handler.config

\* C38, the part the code keeps: the parser gets a configuration of the
\* tenant with the login's type, and the handler's own one when the tenant
\* has a single configuration of that type.
C38_ParserConfigOfType ==
  Succeeded =>
    /\ resp.out.providerConfig # null
    /\ resp.out.providerConfig.v.type = resp.req.provider
    /\ \E i \in OfLoginType :
         resp.req.project.providers_data[i] = resp.out.providerConfig.v
    /\ Cardinality(OfLoginType) = 1
         => /\ resp.out.providerConfig.v.enabled
            /\ resp.out.providerConfig.v = resp.out.handler.config

\* The parser was handed a disabled configuration whose data differs from
\* the data the handler was built with
C38_WitnessDisabledFirst ==
  /\ Succeeded
  /\ ~resp.out.providerConfig.v.enabled
  /\ resp.out.handler.config.enabled
  /\ resp.out.providerConfig.v.data # resp.out.handler.config.data
\* Two enabled configurations of the type: handler of the later, parser
\* configuration of the earlier
C38_WitnessTwoEnabled ==
  /\ Succeeded
  /\ resp.out.providerConfig.v.enabled
  /\ resp.out.providerConfig.v # resp.out.handler.config

\* This step is an update (or, with skipMerge and null, a clear) of a
\* session document
UpdateStep(op) == resp'.op = op /\ resp' # resp
\* Everything of a row but the named column
Except(row, column) == [k \in DOMAIN row \ {column} |-> row[k]]
\* Every row of every tenant is as it was, but for `column` of the row of
\* the request's user
OnlyColumnOfUser(column) ==
  \A c \in Tenants :
    /\ Len(users'[c]) = Len(users[c])
    /\ \A i \in 1..Len(users[c]) :
         IF c = resp'.clientID.v /\ users[c][i].id = resp'.userID
         THEN Except(users'[c][i], column) = Except(users[c][i], column)
         ELSE users'[c][i] = users[c][i]

\* C39: an update or clear of a user's public session document leaves that
\* user's private document, identifier and profile data unchanged, an update
\* or clear of the private document leaves the public document, identifier
\* and profile data unchanged, and neither changes another user's row.
C39_SessionDocumentsIndependent ==
  [][/\ UpdateStep("updateUserPublicData") => OnlyColumnOfUser("session_public")
     /\ UpdateStep("updateUserPrivateData") => OnlyColumnOfUser("session_private")]_vars

\* A user's public document was cleared while the user's private document
\* and the other user's public document are stored
C39_Witness ==
  /\ resp.op = "updateUserPublicData" /\ resp.success
  /\ resp.patch = JNull /\ resp.skipMerge
  /\ \E i, j \in 1..Len(users["beta"]) :
       /\ users["beta"][i].id = resp.userID
       /\ users["beta"][i].session_public = stringify(JNull)
       /\ users["beta"][i].session_private = stringify(JObj([a |-> 1]))
       /\ users["beta"][j].id # resp.userID
       /\ users["beta"][j].session_public = stringify(JObj([a |-> 1]))

\* ------------------------------------------------------------------------
\* C40  After any sequence of set, remove and cleanupExpiredEntries on one
\* table, get(k) returns the value of the most recent set(k, v, expiry) that
\* was not followed by remove(k), provided that set had no expiry or an
\* expiry strictly later than the current time, and undefined otherwise;
\* and cleanupExpiredEntries never removes an entry that get would still
\* return.
\* ------------------------------------------------------------------------
\* what the history of key k lets a get at time t return
LastSet(k, t) ==
  IF /\ written[k].op = "set"
     /\ (written[k].expiry = null \/ written[k].expiry.v > t)
  THEN written[k].value
  ELSE JUndefined
\* in every state, what a get of any key would return
GetReturnsLastSet ==
  \A k \in StorageKeys : get(storageTable, k, now) = LastSet(k, now)
\* a call of get returns it
GetStep ==
  resp' # resp /\ resp'.op = "storage.get"
    => resp'.out.value = LastSet(resp'.req.key, now)
CleanupKeepsVisible ==
  resp'.op = "cleanupExpiredEntries" /\ storageTable' # storageTable
    => \A k \in StorageKeys :
         get(storageTable', k, now) = get(storageTable, k, now)
C40_KeyValueSemantics ==
  []GetReturnsLastSet /\ [][GetStep /\ CleanupKeepsVisible]_vars
\* a cleanup has deleted an expired entry and an entry that expires later is
\* still returned
C40_Witness ==
  /\ resp.op = "cleanupExpiredEntries" /\ resp.out.changes >= 1
  /\ \E k \in StorageKeys :
       /\ written[k].op = "set" /\ written[k].expiry # null
       /\ get(storageTable, k, now) = written[k].value
\* a get has returned undefined for an entry that is stored but has expired
C40_WitnessExpired ==
  /\ resp.op = "storage.get" /\ resp.out.value = JUndefined
  /\ resp.req.now = now
  /\ joinKey(resp.req.key) \in DOMAIN ensureTable(storageTable)

====
